---- MODULE Spec2Model ----
(***************************************************************************)
(* Model of the property-graph core of PhoegTransRust:                     *)
(*   - IdManager and LabelMap            (src/src/property_graph.rs)       *)
(*   - Operation::apply on a GraphTransformation                           *)
(*                                       (src/src/transformation/mod.rs,   *)
(*                                        src/src/graph_transformation.rs) *)
(* Hash maps are functions with an explicit domain, hash sets are sets,    *)
(* the VecDeque of free ids is a sequence (back = last position).          *)
(***************************************************************************)
EXTENDS Integers, Sequences, FiniteSets, TLC

VARIABLES lm, last, pre, hist, gt, batch, res, todo, parse, oracle, pipe, rank

vars == <<lm, last, pre, hist, gt, batch, res, todo, parse, oracle, pipe, rank>>

(***************************************************************************)
(* Bounds of the LabelMap exploration.                                     *)
(***************************************************************************)
\* the id counter is not advanced past this value
MaxIds == 2

Names == {"a", "b", "c"}

Elements == {0, 1}

\* label ids offered to the calls: every id the counter can produce and one
\* that is never produced
LabelIds == 0..MaxIds

(***************************************************************************)
(* HashMap helpers.                                                        *)
(***************************************************************************)
EmptyMap == [k \in {} |-> 0]

Insert(f, k, v) == [x \in (DOMAIN f) \cup {k} |-> IF x = k THEN v ELSE f[x]]

Remove(f, k) == [x \in (DOMAIN f) \ {k} |-> f[x]]

(***************************************************************************)
(* IdManager                                                               *)
(***************************************************************************)
IdManagerDefault == [max_id |-> 0, free_ids |-> <<>>]

\* faulty variant: the oldest freed id is taken first
get_id_fifo(im) ==
    IF Len(im.free_ids) > 0
    THEN [im |-> [im EXCEPT !.free_ids = Tail(@)], id |-> Head(im.free_ids)]
    ELSE [im |-> [im EXCEPT !.max_id = @ + 1], id |-> im.max_id]

\* free_ids.pop_back(), or the counter, then counter += 1
get_id(im) ==
    IF Len(im.free_ids) > 0
    THEN [im |-> [im EXCEPT !.free_ids = SubSeq(@, 1, Len(@) - 1)],
          id |-> im.free_ids[Len(im.free_ids)]]
    ELSE [im |-> [im EXCEPT !.max_id = @ + 1], id |-> im.max_id]

\* free_ids.push_back(id)
free_id(im, id) == [im EXCEPT !.free_ids = Append(@, id)]

(***************************************************************************)
(* LabelMap                                                                *)
(***************************************************************************)
LabelMapDefault ==
    [id_manager |-> IdManagerDefault,
     labels     |-> EmptyMap,
     label_ids  |-> EmptyMap,
     labels_map |-> EmptyMap,
     elements   |-> EmptyMap]

\* results of the fallible calls
Ok == [ok |-> TRUE, val |-> 0]

UnknownLabelId(id) == [ok |-> FALSE, val |-> id]

\* Option<&Label>: the set holding the name, or the empty set
get_label(m, id) == IF id \in DOMAIN m.labels THEN {m.labels[id]} ELSE {}

\* Option<&LabelId>
get_label_id(m, label) ==
    IF label \in DOMAIN m.label_ids THEN {m.label_ids[label]} ELSE {}

labels(m) == DOMAIN m.labels

has_label(m, element, label) ==
    element \in DOMAIN m.labels_map /\ label \in m.labels_map[element]

element_labels(m, element) ==
    IF element \in DOMAIN m.labels_map THEN m.labels_map[element] ELSE {}

label_elements(m, labelid) ==
    IF labelid \in DOMAIN m.elements THEN m.elements[labelid] ELSE {}

\* faulty variant: a fresh id is taken even when the name is registered
add_label_always_allocates(m, label) ==
    LET g == get_id(m.id_manager)
    IN  [map |-> [m EXCEPT !.id_manager = g.im,
                           !.labels = Insert(@, g.id, label),
                           !.label_ids = Insert(@, label, g.id),
                           !.elements = IF g.id \in DOMAIN @ THEN @
                                        ELSE Insert(@, g.id, {})],
         ret |-> g.id]

add_label(m, label) ==
    LET known == label \in DOMAIN m.label_ids
        g     == get_id(m.id_manager)
        id    == IF known THEN m.label_ids[label] ELSE g.id
    IN  [map |-> [m EXCEPT !.id_manager = IF known THEN @ ELSE g.im,
                           !.label_ids = IF known THEN @ ELSE Insert(@, label, id),
                           !.labels = Insert(@, id, label),
                           !.elements = IF id \in DOMAIN @ THEN @
                                        ELSE Insert(@, id, {})],
         ret |-> id]

\* faulty variant: the reverse index entry is dropped, the element sets are kept
delete_label_keeps_sets(m, id) ==
    IF id \notin DOMAIN m.labels
    THEN [map |-> m, ret |-> UnknownLabelId(id)]
    ELSE [map |-> [m EXCEPT !.labels = Remove(@, id),
                            !.id_manager = free_id(@, id),
                            !.label_ids = Remove(@, m.labels[id]),
                            !.elements = Remove(@, id)],
          ret |-> Ok]

delete_label(m, id) ==
    IF id \notin DOMAIN m.labels
    THEN [map |-> m, ret |-> UnknownLabelId(id)]
    ELSE LET label == m.labels[id]
             \* labels.remove(&id), free_id(id), label_ids.remove(&label)
             m1 == [m EXCEPT !.labels = Remove(@, id),
                             !.id_manager = free_id(@, id),
                             !.label_ids = Remove(@, label)]
         IN  IF label \notin DOMAIN m.label_ids
             THEN \* label_ids.remove gave None: `?` returns the error here
                  [map |-> m1, ret |-> UnknownLabelId(id)]
             ELSE LET list == label_elements(m, id)
                  IN  [map |-> [m1 EXCEPT
                                  !.elements = Remove(@, id),
                                  !.labels_map =
                                      [e \in DOMAIN @ |->
                                          IF e \in list THEN @[e] \ {id}
                                          ELSE @[e]]],
                       ret |-> Ok]

\* faulty variant: the old name stays registered
change_label_keeps_old(m, id, new_label) ==
    IF id \notin DOMAIN m.labels
    THEN [map |-> m, ret |-> UnknownLabelId(id)]
    ELSE [map |-> [m EXCEPT !.labels = Insert(@, id, new_label),
                            !.label_ids = Insert(@, new_label, id)],
          ret |-> Ok]

change_label(m, id, new_label) ==
    IF id \notin DOMAIN m.labels
    THEN [map |-> m, ret |-> UnknownLabelId(id)]
    ELSE LET old_label == m.labels[id]
         IN  [map |-> [m EXCEPT
                         !.labels = Insert(@, id, new_label),
                         !.label_ids = Insert(Remove(@, old_label), new_label, id)],
              ret |-> Ok]

\* faulty variant: no check that the label id is registered
add_label_mapping_unchecked(m, element, labelid) ==
    [map |-> [m EXCEPT
                !.labels_map = Insert(@, element,
                                      element_labels(m, element) \cup {labelid}),
                !.elements = Insert(@, labelid,
                                    label_elements(m, labelid) \cup {element})],
     ret |-> Ok]

add_label_mapping(m, element, labelid) ==
    IF labelid \notin DOMAIN m.labels
    THEN [map |-> m, ret |-> UnknownLabelId(labelid)]
    ELSE [map |-> [m EXCEPT
                     !.labels_map = Insert(@, element,
                                           element_labels(m, element) \cup {labelid}),
                     !.elements = Insert(@, labelid,
                                         label_elements(m, labelid) \cup {element})],
          ret |-> Ok]

\* faulty variant: the element leaves the label's set, the label stays in the
\* element's set
remove_label_mapping_reverse_only(m, element, labelid) ==
    IF labelid \notin DOMAIN m.labels
    THEN [map |-> m, ret |-> UnknownLabelId(labelid)]
    ELSE [map |-> [m EXCEPT
                     !.elements = IF labelid \in DOMAIN @
                                  THEN [@ EXCEPT ![labelid] = @ \ {element}]
                                  ELSE @],
          ret |-> Ok]

remove_label_mapping(m, element, labelid) ==
    IF labelid \notin DOMAIN m.labels
    THEN [map |-> m, ret |-> UnknownLabelId(labelid)]
    ELSE IF element \notin DOMAIN m.labels_map
         THEN [map |-> m, ret |-> Ok]
         ELSE [map |-> [m EXCEPT
                          !.labels_map[element] = @ \ {labelid},
                          !.elements = IF labelid \in DOMAIN @
                                       THEN [@ EXCEPT ![labelid] = @ \ {element}]
                                       ELSE @],
               ret |-> Ok]

\* faulty variant: the element's own entry is dropped, the reverse index is kept
remove_element_forward_only(m, element) ==
    [m EXCEPT !.labels_map = Remove(@, element)]

remove_element(m, element) ==
    IF element \notin DOMAIN m.labels_map
    THEN m
    ELSE LET set == m.labels_map[element]
         IN  [m EXCEPT
                !.labels_map = Remove(@, element),
                !.elements = [l \in DOMAIN @ |->
                                 IF l \in set THEN @[l] \ {element} ELSE @[l]]]

(***************************************************************************)
(* What a client can observe of a LabelMap: the registry, the id pool and  *)
(* the two iterators.  An element with an empty label set and an element   *)
(* without an entry are not told apart.                                    *)
(***************************************************************************)
View(m) ==
    [id_manager |-> m.id_manager,
     labels     |-> m.labels,
     label_ids  |-> m.label_ids,
     of_element |-> [e \in Elements |-> element_labels(m, e)],
     of_label   |-> [l \in LabelIds |-> label_elements(m, l)]]

Registered(m, id) == get_label(m, id) # {}

Mapped(m) == {p \in Elements \X LabelIds : p[2] \in element_labels(m, p[1])}

(***************************************************************************)
(* A LabelMap driven by arbitrary calls.  While a call is being looked at, *)
(* `last` is the call and its result, `pre` the LabelMap and the history   *)
(* it started from, `lm` the LabelMap it left.  Return ends the look: the  *)
(* LabelMap stays as the call left it and the next call can be made.       *)
(* `hist` is what a client has seen of the id pool: the ids handed out so  *)
(* far and the ids released by successful deletes that were not handed out *)
(* again, oldest first.                                                    *)
(***************************************************************************)
NoCall == [op |-> "none", element |-> -1, id |-> -1, name |-> "", ret |-> Ok]

Call(op, element, id, name, ret) ==
    [op |-> op, element |-> element, id |-> id, name |-> name, ret |-> ret]

HistDefault == [used |-> {}, freed |-> <<>>]

Without(s, x) == SelectSeq(s, LAMBDA y : y # x)

GtIdle == [status |-> "idle"]

InitLabelMap ==
    /\ lm = LabelMapDefault
    /\ last = NoCall
    /\ pre = [lm |-> LabelMapDefault, hist |-> HistDefault]
    /\ hist = HistDefault
    /\ gt = GtIdle
    /\ batch = <<>>
    /\ res = <<>>
    /\ todo = {}
    /\ parse = <<>>
    /\ oracle = <<>>
    /\ pipe = <<>>
    /\ rank = <<>>

\* the counter stays within MaxIds: a call that would advance it further is
\* not issued
CanAllocate(m) ==
    Len(m.id_manager.free_ids) > 0 \/ m.id_manager.max_id < MaxIds

AddLabel(name) ==
    /\ last = NoCall
    /\ name \in DOMAIN lm.label_ids \/ CanAllocate(lm)
    /\ LET r == add_label(lm, name)
       IN  /\ lm' = r.map
           /\ last' = Call("add_label", -1, -1, name, [ok |-> TRUE, val |-> r.ret])
           /\ hist' = [used |-> hist.used \cup {r.ret},
                       freed |-> Without(hist.freed, r.ret)]
    /\ pre' = [lm |-> lm, hist |-> hist]
    /\ UNCHANGED <<gt, batch, res, todo, parse, oracle, pipe, rank>>

DeleteLabel(id) ==
    /\ last = NoCall
    /\ LET r == delete_label(lm, id)
       IN  /\ lm' = r.map
           /\ last' = Call("delete_label", -1, id, "", r.ret)
           /\ hist' = IF r.ret.ok
                      THEN [hist EXCEPT !.freed = Append(@, id)]
                      ELSE hist
    /\ pre' = [lm |-> lm, hist |-> hist]
    /\ UNCHANGED <<gt, batch, res, todo, parse, oracle, pipe, rank>>

ChangeLabel(id, name) ==
    /\ last = NoCall
    /\ LET r == change_label(lm, id, name)
       IN  /\ lm' = r.map
           /\ last' = Call("change_label", -1, id, name, r.ret)
    /\ pre' = [lm |-> lm, hist |-> hist]
    /\ UNCHANGED <<hist, gt, batch, res, todo, parse, oracle, pipe, rank>>

AddLabelMapping(e, id) ==
    /\ last = NoCall
    /\ LET r == add_label_mapping(lm, e, id)
       IN  /\ lm' = r.map
           /\ last' = Call("add_label_mapping", e, id, "", r.ret)
    /\ pre' = [lm |-> lm, hist |-> hist]
    /\ UNCHANGED <<hist, gt, batch, res, todo, parse, oracle, pipe, rank>>

RemoveLabelMapping(e, id) ==
    /\ last = NoCall
    /\ LET r == remove_label_mapping(lm, e, id)
       IN  /\ lm' = r.map
           /\ last' = Call("remove_label_mapping", e, id, "", r.ret)
    /\ pre' = [lm |-> lm, hist |-> hist]
    /\ UNCHANGED <<hist, gt, batch, res, todo, parse, oracle, pipe, rank>>

RemoveElement(e) ==
    /\ last = NoCall
    /\ lm' = remove_element(lm, e)
    /\ last' = Call("remove_element", e, -1, "", Ok)
    /\ pre' = [lm |-> lm, hist |-> hist]
    /\ UNCHANGED <<hist, gt, batch, res, todo, parse, oracle, pipe, rank>>

\* the call has returned; the LabelMap is left as it is
Return ==
    /\ last # NoCall
    /\ last' = NoCall
    /\ pre' = [lm |-> lm, hist |-> hist]
    /\ UNCHANGED <<lm, hist, gt, batch, res, todo, parse, oracle, pipe, rank>>

DoAddLabel == \E name \in Names : AddLabel(name)

DoDeleteLabel == \E id \in LabelIds : DeleteLabel(id)

DoChangeLabel == \E id \in LabelIds, name \in Names : ChangeLabel(id, name)

DoAddLabelMapping == \E e \in Elements, id \in LabelIds : AddLabelMapping(e, id)

DoRemoveLabelMapping ==
    \E e \in Elements, id \in LabelIds : RemoveLabelMapping(e, id)

DoRemoveElement == \E e \in Elements : RemoveElement(e)

Next ==
    \/ DoAddLabel
    \/ DoDeleteLabel
    \/ DoChangeLabel
    \/ DoAddLabelMapping
    \/ DoRemoveLabelMapping
    \/ DoRemoveElement
    \/ Return

Spec == InitLabelMap /\ [][Next]_vars

\* only add_label and delete_label are called
NextIds ==
    \/ DoAddLabel
    \/ DoDeleteLabel
    \/ Return

SpecIds == InitLabelMap /\ [][NextIds]_vars

\* C1: in every reachable LabelMap state, a label id is among the labels of
\* an element exactly when the element is among the elements of the label.
C1_MappingSymmetry ==
    \A e \in Elements, l \in LabelIds :
        (l \in element_labels(lm, e)) <=> (e \in label_elements(lm, l))

\* a removal has taken mappings away and other mappings are still there
C1_Witness ==
    /\ last.op \in {"remove_element", "delete_label", "remove_label_mapping"}
    /\ Mapped(lm) # {}
    /\ Mapped(lm) # Mapped(pre.lm)
    /\ Mapped(lm) \subseteq Mapped(pre.lm)

\* C2: the id->name map and the name->id map are inverses of each other:
\* get_label(id) = n exactly when get_id(n) = id.
C2_NameIdInverse ==
    \A id \in LabelIds, n \in Names :
        (get_label(lm, id) = {n}) <=> (get_label_id(lm, n) = {id})

\* C3: a label id that get_label does not resolve is in no element's label
\* set and has no entry in the label->elements table.
C3_UnregisteredIdUnmapped ==
    \A id \in LabelIds :
        ~Registered(lm, id) =>
            /\ id \notin DOMAIN lm.elements
            /\ \A e \in Elements : id \notin element_labels(lm, e)

\* C4: with add_label and delete_label only, distinct registered names have
\* distinct ids, and add_label of an unregistered name returns an id that
\* is not registered: the most recently released id that was not handed out
\* again when there is one, otherwise the next counter value 0, 1, 2, ...
C4_IdRecycling ==
    /\ \A n1, n2 \in DOMAIN lm.label_ids :
          n1 # n2 => lm.label_ids[n1] # lm.label_ids[n2]
    /\ (last.op = "add_label" /\ last.name \notin DOMAIN pre.lm.label_ids) =>
          /\ ~Registered(pre.lm, last.ret.val)
          /\ IF Len(pre.hist.freed) > 0
             THEN last.ret.val = pre.hist.freed[Len(pre.hist.freed)]
             ELSE /\ pre.hist.used = 0..(Cardinality(pre.hist.used) - 1)
                  /\ last.ret.val = Cardinality(pre.hist.used)

\* two ids were waiting for reuse when a new name was registered
C4_Witness ==
    /\ last.op = "add_label"
    /\ last.name \notin DOMAIN pre.lm.label_ids
    /\ Len(pre.hist.freed) >= 2

\* C5: delete_label of a registered id returns Ok, unregisters the id and
\* its name, puts the id on the free list and leaves no mapping of the id;
\* of an unregistered id it fails with UnknownLabelId(id) and changes
\* nothing.
C5_DeleteLabel ==
    last.op = "delete_label" =>
        IF Registered(pre.lm, last.id)
        THEN /\ last.ret = Ok
             /\ get_label(lm, last.id) = {}
             /\ get_label_id(lm, pre.lm.labels[last.id]) # {last.id}
             /\ \E i \in DOMAIN lm.id_manager.free_ids :
                    lm.id_manager.free_ids[i] = last.id
             /\ label_elements(lm, last.id) = {}
             /\ \A e \in Elements : last.id \notin element_labels(lm, e)
        ELSE /\ last.ret = UnknownLabelId(last.id)
             /\ lm = pre.lm

\* C6: add_label_mapping and remove_label_mapping with an unregistered id
\* fail with UnknownLabelId and change nothing; remove_label_mapping of an
\* unmapped pair with a registered id returns Ok and changes nothing that
\* can be observed; add_label_mapping a second time changes nothing.
C6_LabelMappingCalls ==
    /\ (last.op \in {"add_label_mapping", "remove_label_mapping"}
        /\ ~Registered(pre.lm, last.id)) =>
          /\ last.ret = UnknownLabelId(last.id)
          /\ lm = pre.lm
    /\ (last.op = "remove_label_mapping"
        /\ Registered(pre.lm, last.id)
        /\ last.id \notin element_labels(pre.lm, last.element)) =>
          /\ last.ret = Ok
          /\ View(lm) = View(pre.lm)
    /\ (last.op = "add_label_mapping" /\ Registered(pre.lm, last.id)) =>
          /\ last.ret = Ok
          /\ last.id \in element_labels(lm, last.element)
          /\ add_label_mapping(lm, last.element, last.id) =
                 [map |-> lm, ret |-> Ok]

\* a pair that is not mapped was removed from an element that has labels
C6_Witness ==
    /\ last.op = "remove_label_mapping"
    /\ Registered(pre.lm, last.id)
    /\ last.id \notin element_labels(pre.lm, last.element)
    /\ element_labels(pre.lm, last.element) # {}

\* C7: add_label of a registered name returns its id, takes no id from the
\* pool and changes no mapping; of an unregistered name it takes the pool's
\* next id; afterwards the name and the returned id resolve to each other,
\* and a second add_label of the name returns the same id.
C7_AddLabel ==
    last.op = "add_label" =>
        /\ IF last.name \in DOMAIN pre.lm.label_ids
           THEN /\ last.ret.val = pre.lm.label_ids[last.name]
                /\ lm.id_manager = pre.lm.id_manager
                /\ lm.labels_map = pre.lm.labels_map
                /\ lm.elements = pre.lm.elements
           ELSE /\ last.ret.val = get_id(pre.lm.id_manager).id
                /\ lm.id_manager = get_id(pre.lm.id_manager).im
        /\ get_label_id(lm, last.name) = {last.ret.val}
        /\ get_label(lm, last.ret.val) = {last.name}
        /\ add_label(lm, last.name).ret = last.ret.val

\* a registered name was added again while an id was free and mappings
\* existed
C7_Witness ==
    /\ last.op = "add_label"
    /\ last.name \in DOMAIN pre.lm.label_ids
    /\ Len(pre.lm.id_manager.free_ids) > 0
    /\ Mapped(pre.lm) # {}

\* C8: after remove_element(e) the element has no label and no label has
\* the element; the registry, the free list and the labels of the other
\* elements are as before; for an element without mappings nothing changes.
C8_RemoveElement ==
    last.op = "remove_element" =>
        /\ element_labels(lm, last.element) = {}
        /\ \A l \in LabelIds : last.element \notin label_elements(lm, l)
        /\ lm.labels = pre.lm.labels
        /\ lm.label_ids = pre.lm.label_ids
        /\ lm.id_manager = pre.lm.id_manager
        /\ \A e \in Elements \ {last.element} :
               element_labels(lm, e) = element_labels(pre.lm, e)
        /\ element_labels(pre.lm, last.element) = {} =>
               View(lm) = View(pre.lm)

\* an element with two labels was removed while another element had labels
C8_Witness ==
    /\ last.op = "remove_element"
    /\ Cardinality(element_labels(pre.lm, last.element)) >= 2
    /\ \E e \in Elements \ {last.element} : element_labels(lm, e) # {}

\* C9: change_label of a registered id to a name other than its current one
\* returns Ok; then the id resolves to the new name, the new name to the
\* id, the old name to nothing, and the element mappings are as before.
\* For an unregistered id it fails with UnknownLabelId and changes nothing.
C9_ChangeLabel ==
    last.op = "change_label" =>
        IF Registered(pre.lm, last.id)
        THEN /\ last.ret = Ok
             /\ pre.lm.labels[last.id] # last.name =>
                  /\ get_label(lm, last.id) = {last.name}
                  /\ get_label_id(lm, last.name) = {last.id}
                  /\ get_label_id(lm, pre.lm.labels[last.id]) = {}
                  /\ lm.labels_map = pre.lm.labels_map
                  /\ lm.elements = pre.lm.elements
        ELSE /\ last.ret = UnknownLabelId(last.id)
             /\ lm = pre.lm

\* a label with elements was renamed
C9_Witness ==
    /\ last.op = "change_label"
    /\ last.ret = Ok
    /\ pre.lm.labels[last.id] # last.name
    /\ label_elements(lm, last.id) # {}

(***************************************************************************)
(* The graph of a PropertyGraph: petgraph's StableDiGraph<Properties,      *)
(* Properties, u32> as the repository uses it.  A slot index stays with    *)
(* its element until the element is removed; removed slots are chained in  *)
(* a free list whose head is the slot removed last, and an insertion takes *)
(* the head of the free list before it grows the storage.  edge_order      *)
(* holds the live edges, oldest first: the adjacency lists of a vertex     *)
(* enumerate its edges newest first.                                       *)
(***************************************************************************)
Properties(name, map) == [name |-> name, map |-> map]

GraphDefault ==
    [nodes      |-> EmptyMap,
     edges      |-> EmptyMap,
     node_bound |-> 0,
     edge_bound |-> 0,
     free_node  |-> <<>>,
     free_edge  |-> <<>>,
     edge_order |-> <<>>]

contains_node(g, a) == a \in DOMAIN g.nodes

\* Option<&Properties>
node_weight(g, a) == IF a \in DOMAIN g.nodes THEN {g.nodes[a]} ELSE {}

edge_weight(g, e) == IF e \in DOMAIN g.edges THEN {g.edges[e].weight} ELSE {}

edge_endpoints(g, e) ==
    IF e \in DOMAIN g.edges
    THEN {<<g.edges[e].source, g.edges[e].target>>}
    ELSE {}

graph_add_node(g, w) ==
    IF Len(g.free_node) > 0
    THEN [graph |-> [g EXCEPT !.nodes = Insert(@, Head(g.free_node), w),
                              !.free_node = Tail(@)],
          index |-> Head(g.free_node)]
    ELSE [graph |-> [g EXCEPT !.nodes = Insert(@, g.node_bound, w),
                              !.node_bound = @ + 1],
          index |-> g.node_bound]

\* both endpoints are vertices of the graph (add_edge panics otherwise)
graph_add_edge(g, a, b, w) ==
    LET reuse == Len(g.free_edge) > 0
        index == IF reuse THEN Head(g.free_edge) ELSE g.edge_bound
        edge  == [source |-> a, target |-> b, weight |-> w]
    IN  [graph |-> [g EXCEPT !.edges = Insert(@, index, edge),
                             !.free_edge = IF reuse THEN Tail(@) ELSE @,
                             !.edge_bound = IF reuse THEN @ ELSE @ + 1,
                             !.edge_order = Append(@, index)],
         index |-> index]

graph_remove_edge(g, e) ==
    IF e \notin DOMAIN g.edges
    THEN g
    ELSE [g EXCEPT !.edges = Remove(@, e),
                   !.free_edge = <<e>> \o @,
                   !.edge_order = Without(@, e)]

Reverse(q) == [i \in 1..Len(q) |-> q[Len(q) + 1 - i]]

\* the edges remove_node takes away, in the order it removes them: the
\* outgoing list of the vertex, then what is left of its incoming list
IncidentEdges(g, a) ==
    LET newest_first == Reverse(g.edge_order)
        out == SelectSeq(newest_first, LAMBDA e : g.edges[e].source = a)
        inc == SelectSeq(newest_first,
                         LAMBDA e : g.edges[e].target = a /\ g.edges[e].source # a)
    IN  out \o inc

RECURSIVE remove_edges(_, _)
remove_edges(g, q) ==
    IF q = <<>> THEN g ELSE remove_edges(graph_remove_edge(g, Head(q)), Tail(q))

graph_remove_node(g, a) ==
    IF a \notin DOMAIN g.nodes
    THEN g
    ELSE LET g1 == remove_edges(g, IncidentEdges(g, a))
         IN  [g1 EXCEPT !.nodes = Remove(@, a),
                        !.free_node = <<a>> \o @]

(***************************************************************************)
(* PropertyGraph                                                           *)
(***************************************************************************)
PropertyGraphDefault ==
    [graph        |-> GraphDefault,
     vertex_label |-> LabelMapDefault,
     edge_label   |-> LabelMapDefault]

\* the members of a set of indices in ascending order: the order in which
\* node_indices, node_weights, edge_indices and edge_weights enumerate
RECURSIVE Ascending(_)
Ascending(S) ==
    IF S = {}
    THEN <<>>
    ELSE LET least == CHOOSE x \in S : \A y \in S : x <= y
         IN  <<least>> \o Ascending(S \ {least})

\* node_weights().map(|x| &x.name)
NodeNames(p) ==
    LET order == Ascending(DOMAIN p.graph.nodes)
    IN  [i \in 1..Len(order) |-> p.graph.nodes[order[i]].name]

\* edge_weights().map(|x| &x.name)
EdgeNames(p) ==
    LET order == Ascending(DOMAIN p.graph.edges)
    IN  [i \in 1..Len(order) |-> p.graph.edges[order[i]].weight.name]

\* the loop over a sequence of names with the set of the names seen so far
RECURSIVE all_new(_, _)
all_new(names, seen) ==
    IF names = <<>>
    THEN [unique |-> TRUE, names |-> seen]
    ELSE IF Head(names) \in seen
         THEN [unique |-> FALSE, names |-> seen]
         ELSE all_new(Tail(names), seen \cup {Head(names)})

\* faulty variant: the set of names is not cleared between the two loops
\* faulty variant: the empty name is not compared
check_unique_names_skip_unnamed(p) ==
    /\ all_new(SelectSeq(NodeNames(p), LAMBDA n : n # ""), {}).unique
    /\ all_new(SelectSeq(EdgeNames(p), LAMBDA n : n # ""), {}).unique

check_unique_names_no_clear(p) ==
    LET first == all_new(NodeNames(p), {})
    IN  first.unique /\ all_new(EdgeNames(p), first.names).unique

check_unique_names(p) ==
    all_new(NodeNames(p), {}).unique /\ all_new(EdgeNames(p), {}).unique

RECURSIVE add_label_mappings(_, _, _)
\* add_label_mapping(element, l).unwrap() for every l of ls: [ok, map]
add_label_mappings(m, element, ls) ==
    IF ls = {}
    THEN [ok |-> TRUE, map |-> m]
    ELSE LET l == CHOOSE x \in ls : TRUE
             r == add_label_mapping(m, element, l)
         IN  IF r.ret.ok
             THEN add_label_mappings(r.map, element, ls \ {l})
             ELSE [ok |-> FALSE, map |-> m]

RECURSIVE add_labels(_, _)
\* add_label for every name of the sequence: the LabelMap and the ids
add_labels(m, names) ==
    IF names = <<>>
    THEN [map |-> m, ids |-> {}]
    ELSE LET r    == add_label(m, Head(names))
             rest == add_labels(r.map, Tail(names))
         IN  [map |-> rest.map, ids |-> {r.ret} \cup rest.ids]

\* a vertex declaration of the graph text: the vertex, then its labels
build_node(p, name, label_names, props) ==
    LET n  == graph_add_node(p.graph, Properties(name, props))
        ls == add_labels(p.vertex_label, label_names)
    IN  [p EXCEPT !.graph = n.graph,
                  !.vertex_label = add_label_mappings(ls.map, n.index, ls.ids).map]

\* an edge declaration between two declared vertices
build_edge(p, first, end, name, label_names, props) ==
    LET e  == graph_add_edge(p.graph, first, end, Properties(name, props))
        ls == add_labels(p.edge_label, label_names)
    IN  [p EXCEPT !.graph = e.graph,
                  !.edge_label = add_label_mappings(ls.map, e.index, ls.ids).map]

(***************************************************************************)
(* Operation: the eighteen kinds, with the payload of each in the fields   *)
(* id (first number), arg and arg2 (second and third number), name and     *)
(* value (first and second string).                                        *)
(***************************************************************************)
Op(kind, id, arg, arg2, name, value) ==
    [id |-> id, name |-> name, kind |-> kind, arg |-> arg, arg2 |-> arg2,
     value |-> value]

AddVertexLabel(v, l) == Op("AddVertexLabel", v, l, -1, "", "")

CreateVertexLabel(l, name) == Op("CreateVertexLabel", l, -1, -1, name, "")

RemoveVertexLabel(v, l) == Op("RemoveVertexLabel", v, l, -1, "", "")

CreateEdgeLabel(l, name) == Op("CreateEdgeLabel", l, -1, -1, name, "")

AddEdgeLabel(e, l) == Op("AddEdgeLabel", e, l, -1, "", "")

RemoveEdgeLabel(e, l) == Op("RemoveEdgeLabel", e, l, -1, "", "")

AddVertex(v) == Op("AddVertex", v, -1, -1, "", "")

RemoveVertex(v) == Op("RemoveVertex", v, -1, -1, "", "")

AddEdge(e, start, end) == Op("AddEdge", e, start, end, "", "")

RemoveEdge(e) == Op("RemoveEdge", e, -1, -1, "", "")

AddVertexProperty(v, name, value) == Op("AddVertexProperty", v, -1, -1, name, value)

RemoveVertexProperty(v, name) == Op("RemoveVertexProperty", v, -1, -1, name, "")

AddEdgeProperty(e, name, value) == Op("AddEdgeProperty", e, -1, -1, name, value)

RemoveEdgeProperty(e, name) == Op("RemoveEdgeProperty", e, -1, -1, name, "")

RenameVertex(v, name) == Op("RenameVertex", v, -1, -1, name, "")

RenameEdge(e, name) == Op("RenameEdge", e, -1, -1, name, "")

MoveEdgeTarget(e, t) == Op("MoveEdgeTarget", e, t, -1, "", "")

MoveEdgeSource(e, s) == Op("MoveEdgeSource", e, s, -1, "", "")

(***************************************************************************)
(* GraphTransformation and the scratch maps of one batch.  status is       *)
(* "running" until an operation panics; a panic ends the batch.            *)
(***************************************************************************)
\* faulty variant: result starts as the empty graph, not as a clone
GraphTransformationFrom_empty_result(p) ==
    [status         |-> "running",
     init           |-> p,
     result         |-> PropertyGraphDefault,
     operations     |-> <<>>,
     node_map       |-> EmptyMap,
     edge_map       |-> EmptyMap,
     node_label_map |-> EmptyMap,
     edge_label_map |-> EmptyMap]

GraphTransformationFrom(p) ==
    [status         |-> "running",
     init           |-> p,
     result         |-> p,
     operations     |-> <<>>,
     node_map       |-> EmptyMap,
     edge_map       |-> EmptyMap,
     node_label_map |-> EmptyMap,
     edge_label_map |-> EmptyMap]

Panic(g) == [g EXCEPT !.status = "panicked"]

get_node_index(id, node_map) ==
    IF id \in DOMAIN node_map THEN node_map[id] ELSE id

get_edge_index(id, edge_map) ==
    IF id \in DOMAIN edge_map THEN edge_map[id] ELSE id

\* faulty variant: a label id is always taken as a real id
get_node_label_index_real(id, node_label_map) == id

get_node_label_index(id, node_label_map) ==
    IF id \in DOMAIN node_label_map THEN node_label_map[id] ELSE id

get_edge_label_index(id, edge_label_map) ==
    IF id \in DOMAIN edge_label_map THEN edge_label_map[id] ELSE id

\* format!("Kind({})", a), format!("Kind({},{})", a, b), ...
Format1(kind, a) == kind \o "(" \o a \o ")"

Format2(kind, a, b) == kind \o "(" \o a \o "," \o b \o ")"

Format3(kind, a, b, c) == kind \o "(" \o a \o "," \o b \o "," \o c \o ")"

(***************************************************************************)
(* Operation::apply, one operator per kind.  g is the GraphTransformation  *)
(* with the four scratch maps.  An unwrap or expect on None, an explicit   *)
(* panic! and a panic of the graph library all give Panic(g).              *)
(***************************************************************************)
apply_AddVertexLabel(g, v, l) ==
    LET index == get_node_index(v, g.node_map)
        lid   == get_node_label_index(l, g.node_label_map)
        r     == add_label_mapping(g.result.vertex_label, index, lid)
    IN  IF ~r.ret.ok \/ ~contains_node(g.result.graph, index)
        THEN Panic(g)
        ELSE [g EXCEPT
                !.result.vertex_label = r.map,
                !.operations = Append(@, Format2("AddVertexLabel",
                                   g.result.graph.nodes[index].name,
                                   r.map.labels[lid]))]

apply_CreateVertexLabel(g, l, name) ==
    LET r == add_label(g.result.vertex_label, name)
    IN  [g EXCEPT !.result.vertex_label = r.map,
                  !.node_label_map = Insert(@, l, r.ret),
                  !.operations = Append(@, Format1("CreateVertexLabel", name))]

apply_RemoveVertexLabel(g, v, l) ==
    LET index == get_node_index(v, g.node_map)
        lid   == get_node_label_index(l, g.node_label_map)
        r     == remove_label_mapping(g.result.vertex_label, index, lid)
    IN  IF ~r.ret.ok \/ ~contains_node(g.result.graph, index)
        THEN Panic(g)
        ELSE [g EXCEPT
                !.result.vertex_label = r.map,
                !.operations = Append(@, Format2("RemoveVertexLabel",
                                   g.result.graph.nodes[index].name,
                                   r.map.labels[lid]))]

apply_AddEdgeLabel(g, e, l) ==
    LET index == get_edge_index(e, g.edge_map)
        lid   == get_edge_label_index(l, g.edge_label_map)
        r     == add_label_mapping(g.result.edge_label, index, lid)
    IN  IF ~r.ret.ok \/ edge_weight(g.result.graph, index) = {}
        THEN Panic(g)
        ELSE [g EXCEPT
                !.result.edge_label = r.map,
                !.operations = Append(@, Format2("AddEdgeLabel",
                                   g.result.graph.edges[index].weight.name,
                                   r.map.labels[lid]))]

apply_CreateEdgeLabel(g, l, name) ==
    LET r == add_label(g.result.edge_label, name)
    IN  [g EXCEPT !.result.edge_label = r.map,
                  !.edge_label_map = Insert(@, l, r.ret),
                  !.operations = Append(@, Format1("CreateEdgeLabel", name))]

apply_RemoveEdgeLabel(g, e, l) ==
    LET index == get_edge_index(e, g.edge_map)
        lid   == get_edge_label_index(l, g.edge_label_map)
        r     == remove_label_mapping(g.result.edge_label, index, lid)
    IN  IF ~r.ret.ok \/ edge_weight(g.result.graph, index) = {}
        THEN Panic(g)
        ELSE [g EXCEPT
                !.result.edge_label = r.map,
                !.operations = Append(@, Format2("RemoveEdgeLabel",
                                   g.result.graph.edges[index].weight.name,
                                   r.map.labels[lid]))]

\* nothing is pushed to the log
apply_AddVertex(g, v) ==
    LET index == get_node_index(v, g.node_map)
    IN  IF contains_node(g.result.graph, index)
        THEN Panic(g)
        ELSE LET n == graph_add_node(g.result.graph, Properties("", EmptyMap))
             IN  [g EXCEPT !.result.graph = n.graph,
                           !.node_map = Insert(@, v, n.index)]

\* remove_node takes the incident edges away; edge_label is not touched
apply_RemoveVertex(g, v) ==
    LET index == get_node_index(v, g.node_map)
    IN  IF ~contains_node(g.result.graph, index)
        THEN Panic(g)
        ELSE [g EXCEPT
                !.result.vertex_label = remove_element(@, index),
                !.result.graph = graph_remove_node(@, index),
                !.node_map = Remove(@, v),
                !.operations = Append(@, Format1("RemoveVertex",
                                   g.result.graph.nodes[index].name))]

apply_AddEdge(g, e, start, end) ==
    LET index == get_edge_index(e, g.edge_map)
        n1    == get_node_index(start, g.node_map)
        n2    == get_node_index(end, g.node_map)
    IN  IF edge_weight(g.result.graph, index) # {}
        THEN Panic(g)
        ELSE IF ~contains_node(g.result.graph, n1)
                \/ ~contains_node(g.result.graph, n2)
        THEN Panic(g)
        ELSE LET r == graph_add_edge(g.result.graph, n1, n2,
                                     Properties("", EmptyMap))
             IN  [g EXCEPT
                    !.result.graph = r.graph,
                    !.edge_map = Insert(@, e, r.index),
                    !.operations = Append(@, Format2("AddEdge",
                                       g.result.graph.nodes[n1].name,
                                       g.result.graph.nodes[n2].name))]

apply_RemoveEdge(g, e) ==
    LET index == get_edge_index(e, g.edge_map)
    IN  IF edge_weight(g.result.graph, index) = {}
        THEN Panic(g)
        ELSE [g EXCEPT
                !.result.edge_label = remove_element(@, index),
                !.result.graph = graph_remove_edge(@, index),
                !.edge_map = Remove(@, e),
                !.operations = Append(@, Format1("RemoveEdge",
                                   g.result.graph.edges[index].weight.name))]

\* faulty variant: the value of a key the vertex already has is kept
apply_AddVertexProperty_keep_existing(g, v, name, value) ==
    LET index == get_node_index(v, g.node_map)
    IN  IF node_weight(g.result.graph, index) = {}
        THEN Panic(g)
        ELSE [g EXCEPT
                !.result.graph.nodes[index].map =
                    IF name \in DOMAIN @ THEN @ ELSE Insert(@, name, value),
                !.operations = Append(@, Format3("AddVertexProperty",
                                   g.result.graph.nodes[index].name, name, value))]

apply_AddVertexProperty(g, v, name, value) ==
    LET index == get_node_index(v, g.node_map)
    IN  IF node_weight(g.result.graph, index) = {}
        THEN Panic(g)
        ELSE [g EXCEPT
                !.result.graph.nodes[index].map = Insert(@, name, value),
                !.operations = Append(@, Format3("AddVertexProperty",
                                   g.result.graph.nodes[index].name, name, value))]

apply_RemoveVertexProperty(g, v, name) ==
    LET index == get_node_index(v, g.node_map)
    IN  IF node_weight(g.result.graph, index) = {}
        THEN Panic(g)
        ELSE [g EXCEPT
                !.result.graph.nodes[index].map = Remove(@, name),
                !.operations = Append(@, Format2("RemoveVertexProperty",
                                   g.result.graph.nodes[index].name, name))]

apply_AddEdgeProperty(g, e, name, value) ==
    LET index == get_edge_index(e, g.edge_map)
    IN  IF edge_weight(g.result.graph, index) = {}
        THEN Panic(g)
        ELSE [g EXCEPT
                !.result.graph.edges[index].weight.map = Insert(@, name, value),
                !.operations = Append(@, Format3("AddEdgeProperty",
                                   g.result.graph.edges[index].weight.name,
                                   name, value))]

apply_RemoveEdgeProperty(g, e, name) ==
    LET index == get_edge_index(e, g.edge_map)
    IN  IF edge_weight(g.result.graph, index) = {}
        THEN Panic(g)
        ELSE [g EXCEPT
                !.result.graph.edges[index].weight.map = Remove(@, name),
                !.operations = Append(@, Format2("RemoveEdgeProperty",
                                   g.result.graph.edges[index].weight.name, name))]

\* faulty variant: the vertex is renamed in init as well
apply_RenameVertex_in_init(g, v, name) ==
    LET index == get_node_index(v, g.node_map)
    IN  IF node_weight(g.result.graph, index) = {}
        THEN Panic(g)
        ELSE [g EXCEPT
                !.result.graph.nodes[index].name = name,
                !.init.graph.nodes =
                    IF index \in DOMAIN @
                    THEN [@ EXCEPT ![index].name = name]
                    ELSE @,
                !.operations = Append(@, Format2("RenameVertex",
                                   g.result.graph.nodes[index].name, name))]

\* the log entry carries the name before the change
apply_RenameVertex(g, v, name) ==
    LET index == get_node_index(v, g.node_map)
    IN  IF node_weight(g.result.graph, index) = {}
        THEN Panic(g)
        ELSE [g EXCEPT
                !.result.graph.nodes[index].name = name,
                !.operations = Append(@, Format2("RenameVertex",
                                   g.result.graph.nodes[index].name, name))]

apply_RenameEdge(g, e, name) ==
    LET index == get_edge_index(e, g.edge_map)
    IN  IF edge_weight(g.result.graph, index) = {}
        THEN Panic(g)
        ELSE [g EXCEPT
                !.result.graph.edges[index].weight.name = name,
                !.operations = Append(@, Format2("RenameEdge",
                                   g.result.graph.edges[index].weight.name, name))]

\* remove the edge, insert it again between src and target, copy the labels
\* of the old index to the new index, then remove_element(old index)
move_edge(g, kind, e, edgeindex, src, target, logged) ==
    LET w  == g.result.graph.edges[edgeindex].weight
        g1 == graph_remove_edge(g.result.graph, edgeindex)
    IN  IF ~contains_node(g1, src) \/ ~contains_node(g1, target)
        THEN Panic(g)
        ELSE LET r      == graph_add_edge(g1, src, target, w)
                 moved  == element_labels(g.result.edge_label, edgeindex)
                 m      == add_label_mappings(g.result.edge_label, r.index, moved)
             IN  IF ~m.ok
                 THEN Panic(g)
                 ELSE [g EXCEPT
                         !.result.graph = r.graph,
                         !.result.edge_label = remove_element(m.map, edgeindex),
                         !.edge_map = Insert(@, e, r.index),
                         !.operations = Append(@, Format2(kind, w.name,
                                            r.graph.nodes[logged].name))]

apply_MoveEdgeTarget(g, e, t) ==
    LET edgeindex == get_edge_index(e, g.edge_map)
        target    == get_node_index(t, g.node_map)
    IN  IF edge_endpoints(g.result.graph, edgeindex) = {}
        THEN Panic(g)
        ELSE move_edge(g, "MoveEdgeTarget", e, edgeindex,
                       g.result.graph.edges[edgeindex].source, target, target)

apply_MoveEdgeSource(g, e, s) ==
    LET edgeindex == get_edge_index(e, g.edge_map)
        src       == get_node_index(s, g.node_map)
    IN  IF edge_endpoints(g.result.graph, edgeindex) = {}
        THEN Panic(g)
        ELSE move_edge(g, "MoveEdgeSource", e, edgeindex,
                       src, g.result.graph.edges[edgeindex].target, src)

apply(g, op) ==
    CASE op.kind = "AddVertexLabel" -> apply_AddVertexLabel(g, op.id, op.arg)
      [] op.kind = "CreateVertexLabel" -> apply_CreateVertexLabel(g, op.id, op.name)
      [] op.kind = "RemoveVertexLabel" -> apply_RemoveVertexLabel(g, op.id, op.arg)
      [] op.kind = "AddEdgeLabel" -> apply_AddEdgeLabel(g, op.id, op.arg)
      [] op.kind = "CreateEdgeLabel" -> apply_CreateEdgeLabel(g, op.id, op.name)
      [] op.kind = "RemoveEdgeLabel" -> apply_RemoveEdgeLabel(g, op.id, op.arg)
      [] op.kind = "AddVertex" -> apply_AddVertex(g, op.id)
      [] op.kind = "RemoveVertex" -> apply_RemoveVertex(g, op.id)
      [] op.kind = "AddEdge" -> apply_AddEdge(g, op.id, op.arg, op.arg2)
      [] op.kind = "RemoveEdge" -> apply_RemoveEdge(g, op.id)
      [] op.kind = "AddVertexProperty" ->
             apply_AddVertexProperty(g, op.id, op.name, op.value)
      [] op.kind = "RemoveVertexProperty" ->
             apply_RemoveVertexProperty(g, op.id, op.name)
      [] op.kind = "AddEdgeProperty" ->
             apply_AddEdgeProperty(g, op.id, op.name, op.value)
      [] op.kind = "RemoveEdgeProperty" ->
             apply_RemoveEdgeProperty(g, op.id, op.name)
      [] op.kind = "RenameVertex" -> apply_RenameVertex(g, op.id, op.name)
      [] op.kind = "RenameEdge" -> apply_RenameEdge(g, op.id, op.name)
      [] op.kind = "MoveEdgeTarget" -> apply_MoveEdgeTarget(g, op.id, op.arg)
      [] op.kind = "MoveEdgeSource" -> apply_MoveEdgeSource(g, op.id, op.arg)

(***************************************************************************)
(* One batch applied to a source graph, as apply_single_transformation     *)
(* does for every batch: a GraphTransformation made from the source, empty *)
(* scratch maps, then the operations one after the other.  `batch` is the  *)
(* sequence of operations applied so far.                                  *)
(***************************************************************************)
\* a batch holds at most this many operations
MaxOps == 2

\* the source graph, built the way the graph text is read:
\*   (x : A {k 1}), (y : A & B), (:x)-[p : R]->(:y), (:y)-[q {k 1}]->(:x)
SourceGraph ==
    LET p1 == build_node(PropertyGraphDefault, "x", <<"A">>, Insert(EmptyMap, "k", "1"))
        p2 == build_node(p1, "y", <<"A", "B">>, EmptyMap)
        p3 == build_edge(p2, 0, 1, "p", <<"R">>, EmptyMap)
    IN  build_edge(p3, 1, 0, "q", <<>>, Insert(EmptyMap, "k", "1"))

\* batch-local ids of the operations: the real indices of the source graph
\* and one id that is no index of it
VertexIds == {0, 1, 5}

EdgeIds == {0, 1, 5}

\* label ids of the operations: registered ids and one unregistered id
OpLabelIds == {0, 1, 5}

NewLabelNames == {"A", "C"}

NewNames == {"x", "n"}

PropertyKeys == {"k"}

PropertyValues == {"1", "2"}

\* `pre` is the GraphTransformation the operation applied last started from
InitApply ==
    /\ lm = LabelMapDefault
    /\ last = NoCall
    /\ pre = [gt |-> GraphTransformationFrom(SourceGraph), res |-> <<>>]
    /\ hist = HistDefault
    /\ gt = GraphTransformationFrom(SourceGraph)
    /\ batch = <<>>
    /\ res = <<>>
    /\ todo = {}
    /\ parse = <<>>
    /\ oracle = <<>>
    /\ pipe = <<>>
    /\ rank = <<>>

Apply(op) ==
    /\ gt.status = "running"
    /\ Len(batch) < MaxOps
    /\ gt' = apply(gt, op)
    /\ batch' = Append(batch, op)
    /\ pre' = [gt |-> gt, res |-> res]
    /\ UNCHANGED <<lm, last, hist, res, todo, parse, oracle, pipe, rank>>

DoAddVertexLabel ==
    \E v \in VertexIds, l \in OpLabelIds : Apply(AddVertexLabel(v, l))

DoCreateVertexLabel ==
    \E l \in OpLabelIds, name \in NewLabelNames : Apply(CreateVertexLabel(l, name))

DoRemoveVertexLabel ==
    \E v \in VertexIds, l \in OpLabelIds : Apply(RemoveVertexLabel(v, l))

DoAddEdgeLabel ==
    \E e \in EdgeIds, l \in OpLabelIds : Apply(AddEdgeLabel(e, l))

DoCreateEdgeLabel ==
    \E l \in OpLabelIds, name \in NewLabelNames : Apply(CreateEdgeLabel(l, name))

DoRemoveEdgeLabel ==
    \E e \in EdgeIds, l \in OpLabelIds : Apply(RemoveEdgeLabel(e, l))

DoAddVertex == \E v \in VertexIds : Apply(AddVertex(v))

DoRemoveVertex == \E v \in VertexIds : Apply(RemoveVertex(v))

DoAddEdge ==
    \E e \in EdgeIds, start \in VertexIds, end \in VertexIds :
        Apply(AddEdge(e, start, end))

DoRemoveEdge == \E e \in EdgeIds : Apply(RemoveEdge(e))

DoAddVertexProperty ==
    \E v \in VertexIds, name \in PropertyKeys, value \in PropertyValues :
        Apply(AddVertexProperty(v, name, value))

DoRemoveVertexProperty ==
    \E v \in VertexIds, name \in PropertyKeys : Apply(RemoveVertexProperty(v, name))

DoAddEdgeProperty ==
    \E e \in EdgeIds, name \in PropertyKeys, value \in PropertyValues :
        Apply(AddEdgeProperty(e, name, value))

DoRemoveEdgeProperty ==
    \E e \in EdgeIds, name \in PropertyKeys : Apply(RemoveEdgeProperty(e, name))

DoRenameVertex ==
    \E v \in VertexIds, name \in NewNames : Apply(RenameVertex(v, name))

DoRenameEdge ==
    \E e \in EdgeIds, name \in NewNames : Apply(RenameEdge(e, name))

DoMoveEdgeTarget ==
    \E e \in EdgeIds, t \in VertexIds : Apply(MoveEdgeTarget(e, t))

DoMoveEdgeSource ==
    \E e \in EdgeIds, s \in VertexIds : Apply(MoveEdgeSource(e, s))

NextApply ==
    \/ DoAddVertexLabel
    \/ DoCreateVertexLabel
    \/ DoRemoveVertexLabel
    \/ DoAddEdgeLabel
    \/ DoCreateEdgeLabel
    \/ DoRemoveEdgeLabel
    \/ DoAddVertex
    \/ DoRemoveVertex
    \/ DoAddEdge
    \/ DoRemoveEdge
    \/ DoAddVertexProperty
    \/ DoRemoveVertexProperty
    \/ DoAddEdgeProperty
    \/ DoRemoveEdgeProperty
    \/ DoRenameVertex
    \/ DoRenameEdge
    \/ DoMoveEdgeTarget
    \/ DoMoveEdgeSource

SpecApply == InitApply /\ [][NextApply]_vars

\* C10: every operation applied without panic adds exactly one entry to
\* the log, so after a batch of n operations the log has n entries.
C10_OneLogEntryPerOperation ==
    gt.status = "running" => Len(gt.operations) = Len(batch)

(***************************************************************************)
(* The operation applied last and the indices its payload resolved to in   *)
(* the state it started from.                                              *)
(***************************************************************************)
Applied == Len(batch) > 0

LastOp == batch[Len(batch)]

\* an earlier operation of the batch of this kind and batch-local id
EarlierOp(kind, id) ==
    \E i \in 1..(Len(batch) - 1) : batch[i].kind = kind /\ batch[i].id = id

PreNode(id) == get_node_index(id, pre.gt.node_map)

PreEdge(id) == get_edge_index(id, pre.gt.edge_map)

\* C11: AddVertex(v) panics exactly when an earlier AddVertex of the batch
\* created v, and AddEdge(e, s, t) with existing endpoints exactly when an
\* earlier AddEdge created e; otherwise one element with the empty name and
\* no property is added and the scratch map sends the batch-local id to it.
C11_DuplicateCreation ==
    /\ (Applied /\ LastOp.kind = "AddVertex") =>
          /\ (gt.status = "panicked") <=> EarlierOp("AddVertex", LastOp.id)
          /\ gt.status = "running" =>
                /\ LastOp.id \in DOMAIN gt.node_map
                /\ ~contains_node(pre.gt.result.graph, gt.node_map[LastOp.id])
                /\ DOMAIN gt.result.graph.nodes =
                       DOMAIN pre.gt.result.graph.nodes \cup {gt.node_map[LastOp.id]}
                /\ node_weight(gt.result.graph, gt.node_map[LastOp.id]) =
                       {Properties("", EmptyMap)}
    /\ (/\ Applied
        /\ LastOp.kind = "AddEdge"
        /\ contains_node(pre.gt.result.graph, PreNode(LastOp.arg))
        /\ contains_node(pre.gt.result.graph, PreNode(LastOp.arg2))) =>
          /\ (gt.status = "panicked") <=> EarlierOp("AddEdge", LastOp.id)
          /\ gt.status = "running" =>
                /\ LastOp.id \in DOMAIN gt.edge_map
                /\ edge_weight(pre.gt.result.graph, gt.edge_map[LastOp.id]) = {}
                /\ DOMAIN gt.result.graph.edges =
                       DOMAIN pre.gt.result.graph.edges \cup {gt.edge_map[LastOp.id]}
                /\ edge_weight(gt.result.graph, gt.edge_map[LastOp.id]) =
                       {Properties("", EmptyMap)}
                /\ edge_endpoints(gt.result.graph, gt.edge_map[LastOp.id]) =
                       {<<PreNode(LastOp.arg), PreNode(LastOp.arg2)>>}

\* C12: after MoveEdgeTarget(e, t) or MoveEdgeSource(e, s) that did not
\* panic, the graph has as many edges as before, batch-local id e resolves
\* to an edge whose moved endpoint is the given vertex and whose other
\* endpoint, Properties and label set are those of e before the move.
C12_MoveEdge ==
    (/\ Applied
     /\ LastOp.kind \in {"MoveEdgeTarget", "MoveEdgeSource"}
     /\ gt.status = "running") =>
        LET old  == pre.gt.result.graph.edges[PreEdge(LastOp.id)]
            ends == IF LastOp.kind = "MoveEdgeTarget"
                    THEN <<old.source, PreNode(LastOp.arg)>>
                    ELSE <<PreNode(LastOp.arg), old.target>>
        IN  /\ Cardinality(DOMAIN gt.result.graph.edges) =
                   Cardinality(DOMAIN pre.gt.result.graph.edges)
            /\ LastOp.id \in DOMAIN gt.edge_map
            /\ edge_endpoints(gt.result.graph, gt.edge_map[LastOp.id]) = {ends}
            /\ edge_weight(gt.result.graph, gt.edge_map[LastOp.id]) = {old.weight}
            /\ element_labels(gt.result.edge_label, gt.edge_map[LastOp.id]) =
                   element_labels(pre.gt.result.edge_label, PreEdge(LastOp.id))

\* position i of the batch removed batch-local id `id` of this kind and no
\* later operation of the batch created the id again
RemovedAt(i, remove, add) ==
    /\ batch[i].kind = remove
    /\ \A j \in (i + 1)..Len(batch) :
           ~(batch[j].kind = add /\ batch[j].id = batch[i].id)

\* C13: right after RemoveVertex(v) or RemoveEdge(e) the element is not in
\* the graph, has no label mapping and the scratch map has no entry for the
\* batch-local id; and for the rest of the batch the batch-local id of a
\* removed element resolves to no live element, unless it is created again.
C13_Remove ==
    gt.status = "running" =>
        /\ (Applied /\ LastOp.kind = "RemoveVertex") =>
              /\ ~contains_node(gt.result.graph, PreNode(LastOp.id))
              /\ element_labels(gt.result.vertex_label, PreNode(LastOp.id)) = {}
              /\ \A l \in DOMAIN gt.result.vertex_label.elements :
                     PreNode(LastOp.id) \notin
                         label_elements(gt.result.vertex_label, l)
              /\ LastOp.id \notin DOMAIN gt.node_map
        /\ (Applied /\ LastOp.kind = "RemoveEdge") =>
              /\ edge_weight(gt.result.graph, PreEdge(LastOp.id)) = {}
              /\ element_labels(gt.result.edge_label, PreEdge(LastOp.id)) = {}
              /\ \A l \in DOMAIN gt.result.edge_label.elements :
                     PreEdge(LastOp.id) \notin
                         label_elements(gt.result.edge_label, l)
              /\ LastOp.id \notin DOMAIN gt.edge_map
        /\ \A i \in 1..Len(batch) :
              /\ RemovedAt(i, "RemoveVertex", "AddVertex") =>
                    ~contains_node(gt.result.graph,
                                   get_node_index(batch[i].id, gt.node_map))
              /\ RemovedAt(i, "RemoveEdge", "AddEdge") =>
                    edge_weight(gt.result.graph,
                                get_edge_index(batch[i].id, gt.edge_map)) = {}

\* the label id the payload of the operation applied last resolved to
PreNodeLabel(l) == get_node_label_index(l, pre.gt.node_label_map)

PreEdgeLabel(l) == get_edge_label_index(l, pre.gt.edge_label_map)

\* the elements other than `element` have the label sets they had
OthersUnchanged(m, m0, element) ==
    \A u \in (DOMAIN m.labels_map \cup DOMAIN m0.labels_map) \ {element} :
        element_labels(m, u) = element_labels(m0, u)

\* C14: Add*Label(v, l) on an existing element and a registered label puts l
\* in the label set of v, Remove*Label(v, l) takes it out, and no other
\* element's label set changes; with an unregistered label the operation
\* panics.  A batch [AddVertexLabel(v, new), RemoveVertexLabel(v, old)] on a
\* vertex whose only label is old leaves v with {new} and the two log
\* entries in application order.
C14_LabelOperations ==
    /\ (/\ Applied
        /\ LastOp.kind \in {"AddVertexLabel", "RemoveVertexLabel"}
        /\ contains_node(pre.gt.result.graph, PreNode(LastOp.id))
        /\ Registered(pre.gt.result.vertex_label, PreNodeLabel(LastOp.arg))) =>
          /\ gt.status = "running"
          /\ (LastOp.kind = "AddVertexLabel") <=>
                 (PreNodeLabel(LastOp.arg) \in
                      element_labels(gt.result.vertex_label, PreNode(LastOp.id)))
          /\ OthersUnchanged(gt.result.vertex_label, pre.gt.result.vertex_label,
                             PreNode(LastOp.id))
    /\ (/\ Applied
        /\ LastOp.kind \in {"AddEdgeLabel", "RemoveEdgeLabel"}
        /\ edge_weight(pre.gt.result.graph, PreEdge(LastOp.id)) # {}
        /\ Registered(pre.gt.result.edge_label, PreEdgeLabel(LastOp.arg))) =>
          /\ gt.status = "running"
          /\ (LastOp.kind = "AddEdgeLabel") <=>
                 (PreEdgeLabel(LastOp.arg) \in
                      element_labels(gt.result.edge_label, PreEdge(LastOp.id)))
          /\ OthersUnchanged(gt.result.edge_label, pre.gt.result.edge_label,
                             PreEdge(LastOp.id))
    /\ (/\ Applied
        /\ \/ /\ LastOp.kind \in {"AddVertexLabel", "RemoveVertexLabel"}
              /\ ~Registered(pre.gt.result.vertex_label, PreNodeLabel(LastOp.arg))
           \/ /\ LastOp.kind \in {"AddEdgeLabel", "RemoveEdgeLabel"}
              /\ ~Registered(pre.gt.result.edge_label, PreEdgeLabel(LastOp.arg))) =>
          gt.status = "panicked"
    /\ (/\ Len(batch) = 2
        /\ batch[1].kind = "AddVertexLabel"
        /\ batch[2].kind = "RemoveVertexLabel"
        /\ batch[1].id = batch[2].id
        /\ batch[1].arg # batch[2].arg
        /\ contains_node(gt.init.graph, batch[1].id)
        /\ Registered(gt.init.vertex_label, batch[1].arg)
        /\ element_labels(gt.init.vertex_label, batch[1].id) = {batch[2].arg}) =>
          /\ gt.status = "running"
          /\ element_labels(gt.result.vertex_label, batch[1].id) = {batch[1].arg}
          /\ gt.operations =
                 << Format2("AddVertexLabel",
                            gt.init.graph.nodes[batch[1].id].name,
                            gt.init.vertex_label.labels[batch[1].arg]),
                    Format2("RemoveVertexLabel",
                            gt.init.graph.nodes[batch[1].id].name,
                            gt.init.vertex_label.labels[batch[2].arg]) >>

\* vertex x, whose only label is A, got B and lost A
C14_Witness ==
    /\ batch = <<AddVertexLabel(0, 1), RemoveVertexLabel(0, 0)>>
    /\ gt.status = "running"
    /\ element_labels(gt.init.vertex_label, 0) = {0}
    /\ element_labels(gt.result.vertex_label, 0) = {1}
    /\ gt.operations = <<"AddVertexLabel(x,B)", "RemoveVertexLabel(x,A)">>

\* C16: while the operations of a batch are applied without panic, init is
\* the source graph the GraphTransformation was made from: same vertices,
\* edges, endpoints, Properties, labels and label ids.
C16_InitImmutable ==
    gt.status = "running" =>
        /\ gt.init = SourceGraph
        /\ gt.init = pre.gt.init

\* a vertex was removed and a second operation applied: result differs from
\* init in its vertices, its edges and its labels
C16_Witness ==
    /\ gt.status = "running"
    /\ Len(batch) = 2
    /\ batch[1].kind = "RemoveVertex"
    /\ DOMAIN gt.result.graph.nodes # DOMAIN gt.init.graph.nodes
    /\ DOMAIN gt.result.graph.edges # DOMAIN gt.init.graph.edges
    /\ gt.result.vertex_label # gt.init.vertex_label

(***************************************************************************)
(* apply_single_transformation: the batches of `operations` are visited    *)
(* one after the other.  For each, a GraphTransformation is made from the  *)
(* source graph with empty scratch maps, the operations of the batch are   *)
(* applied, and the GraphTransformation is pushed to res when its result   *)
(* passes check_unique_names.  `todo` holds the keys of `operations` not   *)
(* visited yet; the operations of a batch are chosen as they are applied.  *)
(* A panic of an operation ends the whole call.                            *)
(***************************************************************************)
\* keys of the map generate_operations returned
BatchIds == {1, 2}

InitTransfo ==
    /\ lm = LabelMapDefault
    /\ last = NoCall
    /\ pre = [gt |-> GtIdle, res |-> <<>>]
    /\ hist = HistDefault
    /\ gt = GtIdle
    /\ batch = <<>>
    /\ res = <<>>
    /\ todo = BatchIds
    /\ parse = <<>>
    /\ oracle = <<>>
    /\ pipe = <<>>
    /\ rank = <<>>

\* for transfo in operations.values(): ng = g.into(), fresh scratch maps
BeginBatch ==
    /\ gt.status = "idle"
    /\ \E id \in todo : todo' = todo \ {id}
    /\ gt' = GraphTransformationFrom(SourceGraph)
    /\ batch' = <<>>
    /\ pre' = [gt |-> gt, res |-> res]
    /\ UNCHANGED <<lm, last, hist, res, parse, oracle, pipe, rank>>

\* the operations of the batch are applied: if check_unique_names, push
EndBatch ==
    /\ gt.status = "running"
    /\ res' = IF check_unique_names(gt.result) THEN Append(res, gt) ELSE res
    /\ gt' = GtIdle
    /\ pre' = [gt |-> gt, res |-> res]
    /\ UNCHANGED <<lm, last, hist, batch, todo, parse, oracle, pipe, rank>>

NextTransfo ==
    \/ BeginBatch
    \/ DoRenameVertex
    \/ DoRenameEdge
    \/ DoAddVertex
    \/ EndBatch

SpecTransfo == InitTransfo /\ [][NextTransfo]_vars

\* no two vertices share a name and no two edges share a name
NamesUnique(p) ==
    /\ \A a, b \in DOMAIN p.graph.nodes :
          a # b => p.graph.nodes[a].name # p.graph.nodes[b].name
    /\ \A e, f \in DOMAIN p.graph.edges :
          e # f => p.graph.edges[e].weight.name # p.graph.edges[f].weight.name

\* the batch whose operations were all applied has just been looked at
BatchEnded == gt.status = "idle" /\ pre.gt.status = "running"

\* C15: a batch is pushed to res exactly when, after its operations, no two
\* vertices of result share a name and no two edges share a name (a vertex
\* and an edge may); a batch that is not pushed raises no error, leaves res
\* as it was, and the next batch starts from the source graph again.
C15_UniqueNamesFilter ==
    /\ BatchEnded =>
          /\ check_unique_names(pre.gt.result) <=> NamesUnique(pre.gt.result)
          /\ res = IF NamesUnique(pre.gt.result)
                   THEN Append(pre.res, pre.gt)
                   ELSE pre.res
    /\ ~BatchEnded => res = pre.res
    /\ (gt.status = "running" /\ batch = <<>>) =>
          gt = GraphTransformationFrom(SourceGraph)
    /\ \A i \in DOMAIN res : NamesUnique(res[i].result)

\* a batch in which an edge got the name of a vertex was pushed, and the
\* batch after it, in which two vertices share a name, was not
C15_Witness ==
    /\ BatchEnded
    /\ ~NamesUnique(pre.gt.result)
    /\ Len(res) = 1
    /\ \E a \in DOMAIN res[1].result.graph.nodes,
          e \in DOMAIN res[1].result.graph.edges :
           res[1].result.graph.nodes[a].name =
               res[1].result.graph.edges[e].weight.name
    /\ todo = {}

(***************************************************************************)
(* PropertyGraphParser: convert_text builds one PropertyGraph per graph    *)
(* type of the text.  `parse` holds, for each graph type, the graph built  *)
(* so far and the map from the vertex names declared so far to their       *)
(* indices; an edge declaration names its endpoints and is attached to the *)
(* vertices the map holds for these names; when the map has no vertex for  *)
(* one of them, names.get(..).unwrap() panics and convert_text returns no  *)
(* graph.  The texts explored declare the vertices of a graph type before  *)
(* its edges, as the texts of the repository do.                           *)
(***************************************************************************)
\* a graph type declares at most this many vertices and this many edges
MaxNodes == 2

MaxEdges == 2

\* (x), (y : A {k 1})
NodeTypes ==
    { [name |-> "x", labels |-> <<>>, map |-> EmptyMap],
      [name |-> "y", labels |-> <<"A">>, map |-> Insert(EmptyMap, "k", "1")] }

\* (:x)-[p : R]->(:y), (:x)-[p : S & R {k 1}]->(:y), (:y)-[p : R]->(:x),
\* (:x)-[q : R]->(:y)
EdgeTypes ==
    { [first |-> "x", name |-> "p", labels |-> <<"R">>, map |-> EmptyMap,
       end |-> "y"],
      [first |-> "x", name |-> "p", labels |-> <<"S", "R">>,
       map |-> Insert(EmptyMap, "k", "1"), end |-> "y"],
      [first |-> "y", name |-> "p", labels |-> <<"R">>, map |-> EmptyMap,
       end |-> "x"],
      [first |-> "x", name |-> "q", labels |-> <<"R">>, map |-> EmptyMap,
       end |-> "y"] }

GraphTypes == {1, 2}

\* build_graph: PropertyGraph::default() and no name
BuildGraphStart ==
    [graph |-> PropertyGraphDefault, names |-> EmptyMap, status |-> "building"]

\* Rule::nodeType
nodeType(b, d) ==
    [graph |-> build_node(b.graph, d.name, d.labels, d.map),
     names |-> Insert(b.names, d.name,
                      graph_add_node(b.graph.graph, Properties(d.name, d.map)).index),
     status |-> b.status]

\* Rule::edgeType; names.get(..).unwrap() panics, before the graph is
\* touched, when the first or the last name is not declared
edgeType(b, d) ==
    IF d.first \notin DOMAIN b.names \/ d.end \notin DOMAIN b.names
    THEN [b EXCEPT !.status = "panicked"]
    ELSE [b EXCEPT !.graph = build_edge(@, b.names[d.first], b.names[d.end],
                                        d.name, d.labels, d.map)]

\* convert_text is still reading: no declaration has panicked
reading == \A i \in GraphTypes : parse[i].status = "building"

InitParse ==
    /\ lm = LabelMapDefault
    /\ last = NoCall
    /\ pre = [gt |-> GtIdle, res |-> <<>>]
    /\ hist = HistDefault
    /\ gt = GtIdle
    /\ batch = <<>>
    /\ res = <<>>
    /\ todo = {}
    /\ parse = [i \in GraphTypes |-> BuildGraphStart]
    /\ oracle = <<>>
    /\ pipe = <<>>
    /\ rank = <<>>

NodeType(i, d) ==
    /\ gt.status = "idle"
    /\ reading
    /\ Cardinality(DOMAIN parse[i].graph.graph.nodes) < MaxNodes
    /\ DOMAIN parse[i].graph.graph.edges = {}
    /\ parse' = [parse EXCEPT ![i] = nodeType(@, d)]
    /\ UNCHANGED <<lm, last, pre, hist, gt, batch, res, todo, oracle, pipe, rank>>

EdgeType(i, d) ==
    /\ gt.status = "idle"
    /\ reading
    /\ Cardinality(DOMAIN parse[i].graph.graph.edges) < MaxEdges
    /\ parse' = [parse EXCEPT ![i] = edgeType(@, d)]
    /\ UNCHANGED <<lm, last, pre, hist, gt, batch, res, todo, oracle, pipe, rank>>

DoNodeType == \E i \in GraphTypes, d \in NodeTypes : NodeType(i, d)

DoEdgeType == \E i \in GraphTypes, d \in EdgeTypes : EdgeType(i, d)

NextParse ==
    \/ DoNodeType
    \/ DoEdgeType

SpecParse == InitParse /\ [][NextParse]_vars

(***************************************************************************)
(* generate_key and impl Hash for PropertyGraph.  Strings are compared as  *)
(* str::cmp compares them, byte by byte: StrOrder lists the strings of the *)
(* model in that order.  sort_by is a stable sort.  The content hash is    *)
(* modelled by the sequence of strings written to the hasher.              *)
(***************************************************************************)
StrOrder ==
    <<"", "1", "2", "A", "B", "C", "R", "S", "k", "n", "p", "q", "x", "y">>

Rank(str) == CHOOSE i \in 1..Len(StrOrder) : StrOrder[i] = str

\* x is put behind the entries that are not greater than it
insert_by_name(sorted, x) ==
    LET before == SelectSeq(sorted, LAMBDA y : Rank(y.name) <= Rank(x.name))
        after  == SelectSeq(sorted, LAMBDA y : Rank(y.name) > Rank(x.name))
    IN  before \o <<x>> \o after

\* sort_by(|(_, name1), (_, name2)| name1.cmp(name2)) on (index, name) pairs
RECURSIVE sort_by_name(_)
sort_by_name(q) ==
    IF q = <<>>
    THEN <<>>
    ELSE insert_by_name(sort_by_name(SubSeq(q, 1, Len(q) - 1)), q[Len(q)])

\* a set of strings collected into a Vec and sorted
RECURSIVE sorted(_)
sorted(S) ==
    IF S = {}
    THEN <<>>
    ELSE LET least == CHOOSE x \in S : \A y \in S : Rank(x) <= Rank(y)
         IN  <<least>> \o sorted(S \ {least})

\* the (key, value) pairs of a property map, sorted, each written key first
RECURSIVE hash_props(_, _)
hash_props(map, keys) ==
    IF keys = <<>>
    THEN <<>>
    ELSE <<Head(keys), map[Head(keys)]>> \o hash_props(map, Tail(keys))

\* the outcome of a call that panics in Option::unwrap()
UnwrapNone == "panic: called Option::unwrap() on a None value"

\* get_label(id).unwrap() panics for a label id of the element: the element
\* carries a label id that is not registered
unwrap_panics(m, element) ==
    \E l \in element_labels(m, element) : get_label(m, l) = {}

\* the names of the labels of an element collected into a HashSet
\* (get_label(..).unwrap() of every label id of the element)
label_names(m, element) ==
    IF unwrap_panics(m, element)
    THEN UnwrapNone
    ELSE {m.labels[l] : l \in element_labels(m, element)}

\* x is put behind the strings that are not greater than it
insert_string(q, x) ==
    SelectSeq(q, LAMBDA y : Rank(y) <= Rank(x)) \o <<x>>
    \o SelectSeq(q, LAMBDA y : Rank(y) > Rank(x))

\* labels.sort() on a Vec of strings: equal strings are all kept
RECURSIVE sort_strings(_)
sort_strings(q) ==
    IF q = <<>>
    THEN <<>>
    ELSE insert_string(sort_strings(SubSeq(q, 1, Len(q) - 1)), q[Len(q)])

\* the names of the labels of an element collected into a Vec, one entry
\* for every label id of the element, and sorted: a name that two label
\* ids of the element carry is there twice
sorted_labels(m, element) ==
    LET ids == Ascending(element_labels(m, element))
    IN  IF unwrap_panics(m, element)
        THEN UnwrapNone
        ELSE sort_strings([i \in 1..Len(ids) |-> m.labels[ids[i]]])

\* edges_directed(node, Outgoing): the outgoing edges, newest first
outgoing(g, a) ==
    SelectSeq(Reverse(g.edge_order), LAMBDA e : g.edges[e].source = a)

\* (index, name) of a sequence of edge indices
edge_names_of(g, q) ==
    [i \in 1..Len(q) |-> [id |-> q[i], name |-> g.edges[q[i]].weight.name]]

\* what hash_edge writes to the hasher, or the panic of its unwrap
hash_edge(edge_name, edge_id, p) ==
    LET names == sorted_labels(p.edge_label, edge_id)
    IN  IF names = UnwrapNone
        THEN UnwrapNone
        ELSE <<edge_name>>
             \o hash_props(p.graph.edges[edge_id].weight.map,
                           sorted(DOMAIN p.graph.edges[edge_id].weight.map))
             \o names

\* the loop of hash_node over the sorted outgoing edges left in q: a panic
\* of hash_edge ends it
RECURSIVE hash_edges(_, _)
hash_edges(q, p) ==
    IF q = <<>>
    THEN <<>>
    ELSE LET first == hash_edge(Head(q).name, Head(q).id, p)
         IN  IF first = UnwrapNone
             THEN UnwrapNone
             ELSE LET rest == hash_edges(Tail(q), p)
                  IN  IF rest = UnwrapNone THEN UnwrapNone ELSE first \o rest

hash_node(node_name, node_id, p) ==
    LET names == sorted_labels(p.vertex_label, node_id)
    IN  IF names = UnwrapNone
        THEN UnwrapNone
        ELSE LET edges == hash_edges(sort_by_name(edge_names_of(p.graph,
                                         outgoing(p.graph, node_id))), p)
             IN  IF edges = UnwrapNone
                 THEN UnwrapNone
                 ELSE <<node_name>>
                      \o hash_props(p.graph.nodes[node_id].map,
                                    sorted(DOMAIN p.graph.nodes[node_id].map))
                      \o names
                      \o edges

\* (index, name) of the vertices in index order, sorted by name
node_names(p) ==
    LET order == Ascending(DOMAIN p.graph.nodes)
    IN  sort_by_name([i \in 1..Len(order) |->
                         [id |-> order[i], name |-> p.graph.nodes[order[i]].name]])

\* the loop of Hash::hash over the sorted vertices left in q: a panic of
\* hash_node ends it
RECURSIVE hash_nodes(_, _)
hash_nodes(q, p) ==
    IF q = <<>>
    THEN <<>>
    ELSE LET first == hash_node(Head(q).name, Head(q).id, p)
         IN  IF first = UnwrapNone
             THEN UnwrapNone
             ELSE LET rest == hash_nodes(Tail(q), p)
                  IN  IF rest = UnwrapNone THEN UnwrapNone ELSE first \o rest

\* impl Hash for PropertyGraph: what is written to the hasher, in order
hash(p) == hash_nodes(node_names(p), p)

\* edges.join(",")
RECURSIVE join(_, _)
join(q, sep) ==
    IF q = <<>> THEN ""
    ELSE IF Len(q) = 1 THEN q[1]
    ELSE q[1] \o sep \o join(Tail(q), sep)

\* the names of a sequence of edges, sorted (with repetitions)
sorted_edge_names(g, q) ==
    LET named == sort_by_name(edge_names_of(g, q))
    IN  [i \in 1..Len(named) |-> named[i].name]

RECURSIVE key_fold(_, _, _)
key_fold(q, p, buff) ==
    IF q = <<>>
    THEN buff
    ELSE LET edges == sorted_edge_names(p.graph, outgoing(p.graph, Head(q).id))
             b1 == buff \o Head(q).name
             b2 == IF edges # <<>> THEN b1 \o ":" \o join(edges, ",") ELSE b1
         IN  key_fold(Tail(q), p, b2 \o ";")

\* faulty variant: the label names of each vertex are part of its segment
RECURSIVE key_fold_labels(_, _, _)
key_fold_labels(q, p, buff) ==
    IF q = <<>>
    THEN buff
    ELSE LET edges == sorted_edge_names(p.graph, outgoing(p.graph, Head(q).id))
             names == sorted({p.vertex_label.labels[l] :
                                 l \in element_labels(p.vertex_label, Head(q).id)})
             b1 == buff \o Head(q).name \o join(names, "&")
             b2 == IF edges # <<>> THEN b1 \o ":" \o join(edges, ",") ELSE b1
         IN  key_fold_labels(Tail(q), p, b2 \o ";")

generate_key_with_labels(p) == key_fold_labels(node_names(p), p, "")

generate_key(p) == key_fold(node_names(p), p, "")

(***************************************************************************)
(* is_isomorphic.  build_isomorphic_input makes a DiGraph whose weights    *)
(* are IsomorphismData: Some((property map, set of label names)) for the   *)
(* vertices and the edges of the property graph, None for the vertex and   *)
(* the second edge that stand for an edge with a parallel edge.  The nodes *)
(* of the DiGraph are numbered 1, 2, ... in the order they are added.      *)
(* petgraph's is_isomorphic_matching answers whether a one-to-one map of   *)
(* the nodes exists that respects the node weights, the edges and the edge *)
(* weights; none of the DiGraphs built here has two edges with the same    *)
(* ordered endpoints.                                                      *)
(***************************************************************************)
None == [some |-> FALSE]

Some(map, names) == [some |-> TRUE, map |-> map, labels |-> names]

\* edges_connecting(a, b).count()
edges_connecting(g, a, b) ==
    Cardinality({e \in DOMAIN g.edges :
                    g.edges[e].source = a /\ g.edges[e].target = b})

\* the weight of a vertex, or the panic of the unwrap of line 264
vertex_data(p, index) ==
    IF unwrap_panics(p.vertex_label, index)
    THEN UnwrapNone
    ELSE Some(p.graph.nodes[index].map, label_names(p.vertex_label, index))

\* faulty variant: the data holds the label ids, not the label names
edge_data_label_ids(p, edge) ==
    Some(p.graph.edges[edge].weight.map, element_labels(p.edge_label, edge))

\* the weight of an edge, or the panic of the unwrap of line 275
edge_data(p, edge) ==
    IF unwrap_panics(p.edge_label, edge)
    THEN UnwrapNone
    ELSE Some(p.graph.edges[edge].weight.map, label_names(p.edge_label, edge))

\* the second loop of build_isomorphic_input over the edges left in q: the
\* panic of the unwrap on the labels of an edge ends it
RECURSIVE add_iso_edges(_, _, _, _)
add_iso_edges(p, vertex_map, graph, q) ==
    IF q = <<>>
    THEN graph
    ELSE IF unwrap_panics(p.edge_label, Head(q))
    THEN UnwrapNone
    ELSE LET edge == Head(q)
             self_node_from == p.graph.edges[edge].source
             self_node_to == p.graph.edges[edge].target
             graph_from == vertex_map[self_node_from]
             graph_to == vertex_map[self_node_to]
             data == edge_data(p, edge)
             inter_node == Len(graph.nodes) + 1
         IN  IF edges_connecting(p.graph, self_node_from, self_node_to) > 1
             THEN add_iso_edges(p, vertex_map,
                      [nodes |-> Append(graph.nodes, None),
                       edges |-> graph.edges \o
                                 << [from |-> graph_from, to |-> inter_node,
                                     weight |-> data],
                                    [from |-> inter_node, to |-> graph_to,
                                     weight |-> None] >>],
                      Tail(q))
             ELSE add_iso_edges(p, vertex_map,
                      [graph EXCEPT !.edges =
                          Append(@, [from |-> graph_from, to |-> graph_to,
                                     weight |-> data])],
                      Tail(q))

build_isomorphic_input(p) ==
    LET order == Ascending(DOMAIN p.graph.nodes)
        vertex_map == [a \in DOMAIN p.graph.nodes |->
                          CHOOSE i \in 1..Len(order) : order[i] = a]
        nodes == [i \in 1..Len(order) |-> vertex_data(p, order[i])]
    IN  IF \E index \in DOMAIN p.graph.nodes : unwrap_panics(p.vertex_label, index)
        THEN UnwrapNone
        ELSE add_iso_edges(p, vertex_map, [nodes |-> nodes, edges |-> <<>>],
                           Ascending(DOMAIN p.graph.edges))

Range(q) == {q[i] : i \in DOMAIN q}

\* the one-to-one maps f of 1..n with f[i] in candidates[i], as sequences
RECURSIVE OneToOne(_, _)
OneToOne(candidates, n) ==
    IF n = 0
    THEN {<<>>}
    ELSE UNION {{Append(f, j) : j \in candidates[n] \ Range(f)} :
                   f \in OneToOne(candidates, n - 1)}

\* the one-to-one maps of the nodes of g0 to nodes of g1 with equal weights
NodeMatchings(g0, g1) ==
    OneToOne([i \in DOMAIN g0.nodes |->
                 {j \in DOMAIN g1.nodes : g0.nodes[i] = g1.nodes[j]}],
             Len(g0.nodes))

is_isomorphic_matching(g0, g1) ==
    /\ Len(g0.nodes) = Len(g1.nodes)
    /\ Len(g0.edges) = Len(g1.edges)
    /\ \E f \in NodeMatchings(g0, g1) :
           {[from |-> f[e.from], to |-> f[e.to], weight |-> e.weight] :
                e \in Range(g0.edges)} = Range(g1.edges)

\* the two inputs are built before is_isomorphic_matching is called: a
\* panic of either is the outcome of is_isomorphic
is_isomorphic(p, other) ==
    LET panics(g) ==
            \/ \E index \in DOMAIN g.graph.nodes :
                   unwrap_panics(g.vertex_label, index)
            \/ \E edge \in DOMAIN g.graph.edges :
                   unwrap_panics(g.edge_label, edge)
    IN  IF panics(p) \/ panics(other)
        THEN UnwrapNone
        ELSE is_isomorphic_matching(build_isomorphic_input(p),
                                    build_isomorphic_input(other))

(***************************************************************************)
(* Two property graphs correspond when a one-to-one map of the vertices    *)
(* and a one-to-one map of the edges exist under which every vertex and    *)
(* every edge has the same property map and the same set of label names,   *)
(* and every edge has the corresponding endpoints; with_names asks for the *)
(* same names too.                                                         *)
(***************************************************************************)
Correspond(p1, p2, with_names) ==
    LET v1 == Ascending(DOMAIN p1.graph.nodes)
        v2 == Ascending(DOMAIN p2.graph.nodes)
        e1 == Ascending(DOMAIN p1.graph.edges)
        e2 == Ascending(DOMAIN p2.graph.edges)
        SameVertex(a, b) ==
            /\ p1.graph.nodes[a].map = p2.graph.nodes[b].map
            /\ label_names(p1.vertex_label, a) = label_names(p2.vertex_label, b)
            /\ with_names => p1.graph.nodes[a].name = p2.graph.nodes[b].name
        SameEdge(e, f, fv) ==
            /\ p1.graph.edges[e].weight.map = p2.graph.edges[f].weight.map
            /\ label_names(p1.edge_label, e) = label_names(p2.edge_label, f)
            /\ with_names =>
                   p1.graph.edges[e].weight.name = p2.graph.edges[f].weight.name
            /\ \E i, j \in DOMAIN v1 :
                   /\ v1[i] = p1.graph.edges[e].source
                   /\ v1[j] = p1.graph.edges[e].target
                   /\ v2[fv[i]] = p2.graph.edges[f].source
                   /\ v2[fv[j]] = p2.graph.edges[f].target
    IN  /\ Len(v1) = Len(v2)
        /\ Len(e1) = Len(e2)
        /\ \E fv \in OneToOne([i \in DOMAIN v1 |->
                                  {j \in DOMAIN v2 : SameVertex(v1[i], v2[j])}],
                              Len(v1)) :
               OneToOne([i \in DOMAIN e1 |->
                            {j \in DOMAIN e2 : SameEdge(e1[i], e2[j], fv)}],
                        Len(e1)) # {}

\* C18: two graphs that hold the same vertices, edges, names, properties
\* and labels, whatever the order in which their vertices and edges were
\* declared, write the same sequence to the hasher and have the same key
\* (the graphs are those of a text whose reading did not panic).
C18_StorageOrderInvariance ==
    (reading /\ Correspond(parse[1].graph, parse[2].graph, TRUE)) =>
        /\ hash(parse[1].graph) = hash(parse[2].graph)
        /\ generate_key(parse[1].graph) = generate_key(parse[2].graph)

\* C19: two graphs that is_isomorphic finds isomorphic write the same
\* sequence to the hasher and have the same key (the graphs are those of a
\* text whose reading did not panic).
C19_HashOfIsomorphic ==
    (reading /\ is_isomorphic(parse[1].graph, parse[2].graph)) =>
        /\ hash(parse[1].graph) = hash(parse[2].graph)
        /\ generate_key(parse[1].graph) = generate_key(parse[2].graph)

\* C20: is_isomorphic is reflexive and symmetric, and it holds exactly when
\* the two graphs correspond by one-to-one maps of vertices and of edges
\* that keep endpoints (parallel edges included), property maps and sets
\* of label names: names and declaration order play no part (the graphs
\* are those of a text whose reading did not panic).
C20_Isomorphism ==
    LET g1 == build_isomorphic_input(parse[1].graph)
        g2 == build_isomorphic_input(parse[2].graph)
        isomorphic == is_isomorphic_matching(g1, g2)
    IN  reading =>
            /\ is_isomorphic_matching(g1, g1)
            /\ isomorphic <=> is_isomorphic_matching(g2, g1)
            /\ isomorphic <=> Correspond(parse[1].graph, parse[2].graph, FALSE)

\* two isomorphic graphs with parallel edges, whose vertices were declared
\* in opposite orders and whose edges carry different names
C20_Witness ==
    /\ is_isomorphic(parse[1].graph, parse[2].graph)
    /\ parse[1].names # parse[2].names
    /\ \E e, f \in DOMAIN parse[1].graph.graph.edges :
           /\ e # f
           /\ parse[1].graph.graph.edges[e].source =
                  parse[1].graph.graph.edges[f].source
           /\ parse[1].graph.graph.edges[e].target =
                  parse[1].graph.graph.edges[f].target
    /\ \E e \in DOMAIN parse[1].graph.graph.edges :
           parse[1].graph.graph.edges[e].weight.name #
               parse[2].graph.graph.edges[e].weight.name
    /\ parse[1].graph.edge_label.labels # parse[2].graph.edge_label.labels

(***************************************************************************)
(* A parsed graph materialized with the empty batch: the graph type is     *)
(* parsed, a GraphTransformation is made from it, no operation is applied  *)
(* and the result goes through the check of apply_single_transformation.   *)
(***************************************************************************)
InitFrom ==
    /\ lm = LabelMapDefault
    /\ last = NoCall
    /\ pre = [gt |-> GtIdle, res |-> <<>>]
    /\ hist = HistDefault
    /\ gt = GtIdle
    /\ batch = <<>>
    /\ res = <<>>
    /\ todo = {1}
    /\ parse = [i \in GraphTypes |-> BuildGraphStart]
    /\ oracle = <<>>
    /\ pipe = <<>>
    /\ rank = <<>>

From ==
    /\ gt.status = "idle"
    /\ reading
    /\ \E id \in todo : todo' = todo \ {id}
    /\ gt' = GraphTransformationFrom(parse[1].graph)
    /\ batch' = <<>>
    /\ pre' = [gt |-> gt, res |-> res]
    /\ UNCHANGED <<lm, last, hist, res, parse, oracle, pipe, rank>>

FirstNodeType == \E d \in NodeTypes : NodeType(1, d)

FirstEdgeType == \E d \in EdgeTypes : EdgeType(1, d)

NextFrom ==
    \/ FirstNodeType
    \/ FirstEdgeType
    \/ From
    \/ EndBatch

SpecFrom == InitFrom /\ [][NextFrom]_vars

\* C17: a GraphTransformation made from a graph, with no operation applied,
\* has an empty log, init is the graph, and init.is_isomorphic(result).
C17_EmptyBatchRoundTrip ==
    /\ (gt.status = "running" /\ batch = <<>>) =>
          /\ gt.init = parse[1].graph
          /\ gt.operations = <<>>
          /\ is_isomorphic(gt.init, gt.result)
    /\ \A i \in DOMAIN res :
          /\ res[i].operations = <<>>
          /\ is_isomorphic(res[i].init, res[i].result)

\* the graph has two vertices and two parallel edges
C17_Witness ==
    /\ gt.status = "running"
    /\ batch = <<>>
    /\ Cardinality(DOMAIN gt.init.graph.nodes) = 2
    /\ \E e, f \in DOMAIN gt.init.graph.edges :
           /\ e # f
           /\ gt.init.graph.edges[e].source = gt.init.graph.edges[f].source
           /\ gt.init.graph.edges[e].target = gt.init.graph.edges[f].target

(***************************************************************************)
(* The oracle adapter.  The evaluator is an external program behind the    *)
(* handle: a handle holds the input relations (sets of tuples) and the     *)
(* output relations (rows in iteration order) of one program instance.     *)
(* A relation exists on the evaluator when the program declares it.        *)
(***************************************************************************)
INPUT_RELATION_NAMES ==
    <<"VertexLabel", "VertexLabelName", "Vertex", "VertexName",
      "VertexHasLabel", "VertexProperty", "EdgeLabel", "EdgeLabelName",
      "Edge", "EdgeName", "EdgeProperty", "EdgeHasLabel">>

TARGET_RELATION_NAMES ==
    <<"TargetVertexLabel", "TargetVertexLabelName", "TargetVertex",
      "TargetVertexName", "TargetVertexHasLabel", "TargetVertexProperty",
      "TargetEdgeLabel", "TargetEdgeLabelName", "TargetEdge",
      "TargetEdgeName", "TargetEdgeProperty", "TargetEdgeHasLabel">>

\* faulty variant: the kinds in the order of the variants of enum Operation
OPERATIONS_enum_order ==
    <<"AddVertexLabel", "CreateVertexLabel", "RemoveVertexLabel",
      "CreateEdgeLabel", "AddEdgeLabel", "RemoveEdgeLabel", "AddVertex",
      "RemoveVertex", "AddEdge", "RemoveEdge", "AddVertexProperty",
      "RemoveVertexProperty", "AddEdgeProperty", "RemoveEdgeProperty",
      "RenameVertex", "RenameEdge", "MoveEdgeTarget", "MoveEdgeSource">>

OPERATIONS ==
    <<"AddVertex", "CreateVertexLabel", "AddVertexLabel", "AddVertexProperty",
      "AddEdge", "CreateEdgeLabel", "AddEdgeLabel", "AddEdgeProperty",
      "MoveEdgeTarget", "MoveEdgeSource", "RenameVertex", "RenameEdge",
      "RemoveEdgeProperty", "RemoveEdgeLabel", "RemoveEdge",
      "RemoveVertexProperty", "RemoveVertexLabel", "RemoveVertex">>

\* OperationName::get_relation
get_relation_name(operation) == operation \o "_"

\* The rule program explored declares the twenty-four input relations, four
\* transformations and the relations of four operation kinds.
Transformations == {"Relabel", "TagAll", "Drop", "Rename"}

OperationRelations ==
    {"AddVertexLabel_", "RemoveVertexLabel_", "RemoveVertex_", "RenameVertex_"}

\* newInstance: every relation of the program, empty
newInstance ==
    [inputs  |-> [r \in Range(INPUT_RELATION_NAMES) \cup Range(TARGET_RELATION_NAMES)
                     |-> {}],
     outputs |-> [r \in Transformations \cup OperationRelations |-> <<>>]]

\* the programs that exist, by name: "model" is the program of newInstance,
\* and "model-t" declares the relation Transformation beside its relations
Programs == {"model", "model-t"}

\* create_program_instance: a new instance of the program of that name.  The
\* pointer is null when the name is that of no program: the operator is
\* applied to the names of Programs only.
create_program_instance(name) ==
    IF name = "model-t"
    THEN [newInstance EXCEPT !.outputs = ("Transformation" :> <<>>) @@ @]
    ELSE newInstance

\* get_relation(..).is_some()
has_relation(program, name) ==
    name \in DOMAIN program.inputs \/ name \in DOMAIN program.outputs

\* insertTuple of every element into a relation that keeps its rows in a
\* sequence: a row the relation holds already is not added again
RECURSIVE insert_tuples(_, _)
insert_tuples(rows, elements) ==
    IF elements = {}
    THEN rows
    ELSE LET t == CHOOSE x \in elements : TRUE
         IN  insert_tuples(IF t \in Range(rows) THEN rows ELSE Append(rows, t),
                           elements \ {t})

\* insertTuple for every element, when get_relation finds the relation:
\* any relation of the program is found, an output relation too
fill_relation(program, relation_name, elements) ==
    IF relation_name \in DOMAIN program.inputs
    THEN [program EXCEPT !.inputs[relation_name] = @ \cup elements]
    ELSE IF relation_name \in DOMAIN program.outputs
         THEN [program EXCEPT
                  !.outputs[relation_name] = insert_tuples(@, elements)]
         ELSE program

\* the tuples encode_graph gives to the i-th relation
encode_tuples(graph, i) ==
    LET vl == graph.vertex_label
        el == graph.edge_label
        ns == graph.graph.nodes
        es == graph.graph.edges
    IN  CASE i = 1 -> {<<id>> : id \in labels(vl)}
          [] i = 2 -> {<<id, vl.labels[id]>> : id \in labels(vl)}
          [] i = 3 -> {<<n>> : n \in DOMAIN ns}
          [] i = 4 -> {<<n, ns[n].name>> : n \in DOMAIN ns}
          [] i = 5 -> UNION {{<<n, l>> : l \in element_labels(vl, n)} :
                                n \in DOMAIN ns}
          [] i = 6 -> UNION {{<<n, k, ns[n].map[k]>> : k \in DOMAIN ns[n].map} :
                                n \in DOMAIN ns}
          [] i = 7 -> {<<id>> : id \in labels(el)}
          [] i = 8 -> {<<id, el.labels[id]>> : id \in labels(el)}
          [] i = 9 -> {<<e, es[e].source, es[e].target>> : e \in DOMAIN es}
          [] i = 10 -> {<<e, es[e].weight.name>> : e \in DOMAIN es}
          [] i = 11 -> UNION {{<<e, k, es[e].weight.map[k]>> :
                                  k \in DOMAIN es[e].weight.map} : e \in DOMAIN es}
          [] i = 12 -> UNION {{<<e, l>> : l \in element_labels(el, e)} :
                                 e \in DOMAIN es}

RECURSIVE encode_relations(_, _, _, _)
encode_relations(program, graph, relation_names, i) ==
    IF i > Len(relation_names)
    THEN program
    ELSE encode_relations(
             fill_relation(program, relation_names[i], encode_tuples(graph, i)),
             graph, relation_names, i + 1)

encode_graph(program, graph, relation_names) ==
    encode_relations(program, graph, relation_names, 1)

encode_input_graph(program, graph) ==
    encode_graph(program, graph, INPUT_RELATION_NAMES)

encode_target_graph(program, graph) ==
    encode_graph(program, graph, TARGET_RELATION_NAMES)

\* the concatenation of a sequence of sequences
RECURSIVE concat(_)
concat(q) == IF q = <<>> THEN <<>> ELSE Head(q) \o concat(Tail(q))

\* batch identifier the rule Relabel gives to "v loses l and gets l2"
relabel_id(v, l, l2) == 100 * v + 10 * l + l2

(***************************************************************************)
(* The rules of the program explored, as the rows each output relation     *)
(* holds after a run over the input facts `in`:                            *)
(*   Relabel  one batch per vertex v with label l and label l2 it lacks:   *)
(*            AddVertexLabel(v, l2), RemoveVertexLabel(v, l)               *)
(*   TagAll   one batch, 0: AddVertexLabel(v, l) for every label l that    *)
(*            v lacks                                                      *)
(*   Drop     one batch per vertex whose name no target vertex has:        *)
(*            RemoveVertex(v)                                              *)
(*   Rename   one batch per vertex: RenameVertex(v, "x")                   *)
(*   Transformation   (where the program declares it) the names Relabel    *)
(*            and TagAll, whatever the facts                               *)
(***************************************************************************)
derive(relation, in) ==
    LET vs == Ascending({t[1] : t \in in["Vertex"]})
        ls == Ascending({t[1] : t \in in["VertexLabel"]})
        has(v, l) == <<v, l>> \in in["VertexHasLabel"]
        relabel(v, l, l2) == has(v, l) /\ l2 # l /\ ~has(v, l2)
        dropped(v) ==
            \A t \in in["VertexName"] :
                t[1] = v => \A u \in in["TargetVertexName"] : u[2] # t[2]
        pairs(row(_, _)) ==
            concat([i \in 1..Len(vs) |->
                concat([j \in 1..Len(ls) |-> row(vs[i], ls[j])])])
        each(row(_)) == concat([i \in 1..Len(vs) |-> row(vs[i])])
        add_rows(v, l2) ==
            (IF has(v, l2) THEN <<>> ELSE << <<"TagAll", 0, v, l2>> >>)
            \o concat([k \in 1..Len(ls) |->
                   IF relabel(v, ls[k], l2)
                   THEN << <<"Relabel", relabel_id(v, ls[k], l2), v, l2>> >>
                   ELSE <<>>])
        remove_rows(v, l) ==
            concat([k \in 1..Len(ls) |->
                IF relabel(v, l, ls[k])
                THEN << <<"Relabel", relabel_id(v, l, ls[k]), v, l>> >>
                ELSE <<>>])
        relabel_ids(v, l) ==
            concat([k \in 1..Len(ls) |->
                IF relabel(v, l, ls[k])
                THEN << <<relabel_id(v, l, ls[k])>> >>
                ELSE <<>>])
        drop_row(v) == IF dropped(v) THEN << <<"Drop", v, v>> >> ELSE <<>>
        drop_id(v) == IF dropped(v) THEN << <<v>> >> ELSE <<>>
        rename_row(v) == << <<"Rename", v, v, "x">> >>
        vertex_id(v) == << <<v>> >>
    IN  CASE relation = "AddVertexLabel_" -> pairs(add_rows)
          [] relation = "RemoveVertexLabel_" -> pairs(remove_rows)
          [] relation = "RemoveVertex_" -> each(drop_row)
          [] relation = "RenameVertex_" -> each(rename_row)
          [] relation = "Relabel" -> pairs(relabel_ids)
          [] relation = "TagAll" ->
                 IF pairs(add_rows) = <<>> THEN <<>> ELSE << <<0>> >>
          [] relation = "Drop" -> each(drop_id)
          [] relation = "Rename" -> each(vertex_id)
          [] relation = "Transformation" -> << <<"Relabel">>, <<"TagAll">> >>

\* rows of `derived` the relation does not hold yet, after the rows it holds
merge_rows(rows, derived) ==
    rows \o SelectSeq(derived, LAMBDA t : t \notin Range(rows))

\* runProgram: the output relations get the rows the rules derive from the
\* facts the input relations hold
runProgram(program) ==
    [program EXCEPT !.outputs =
        [r \in DOMAIN @ |-> merge_rows(@[r], derive(r, program.inputs))]]

\* get_transfos: the program is run and the names the relation
\* Transformation holds are read; None when the program has no such
\* relation.  The instance is left as the run made it.
get_transfos(prog) ==
    LET ran == runProgram(prog)
    IN  IF has_relation(ran, "Transformation")
        THEN [some |-> TRUE, program |-> ran,
              names |-> [i \in DOMAIN ran.outputs["Transformation"] |->
                            ran.outputs["Transformation"][i][1]]]
        ELSE [some |-> FALSE, program |-> ran, names |-> <<>>]

\* purgeProgram: every relation of the instance is emptied
purgeProgram(program) ==
    [inputs  |-> [r \in DOMAIN program.inputs |-> {}],
     outputs |-> [r \in DOMAIN program.outputs |-> <<>>]]

\* OperationName::construct: the columns after the relation name and the
\* batch identifier, read in order
construct(operation, t) ==
    CASE operation = "CreateVertexLabel" -> CreateVertexLabel(t[3], t[4])
      [] operation = "CreateEdgeLabel" -> CreateEdgeLabel(t[3], t[4])
      [] operation = "AddVertexLabel" -> AddVertexLabel(t[3], t[4])
      [] operation = "RemoveVertexLabel" -> RemoveVertexLabel(t[3], t[4])
      [] operation = "AddEdgeLabel" -> AddEdgeLabel(t[3], t[4])
      [] operation = "RemoveEdgeLabel" -> RemoveEdgeLabel(t[3], t[4])
      [] operation = "AddVertex" -> AddVertex(t[3])
      [] operation = "RemoveVertex" -> RemoveVertex(t[3])
      [] operation = "AddEdge" -> AddEdge(t[3], t[4], t[5])
      [] operation = "RemoveEdge" -> RemoveEdge(t[3])
      [] operation = "AddVertexProperty" -> AddVertexProperty(t[3], t[4], t[5])
      [] operation = "RemoveVertexProperty" -> RemoveVertexProperty(t[3], t[4])
      [] operation = "AddEdgeProperty" -> AddEdgeProperty(t[3], t[4], t[5])
      [] operation = "RemoveEdgeProperty" -> RemoveEdgeProperty(t[3], t[4])
      [] operation = "RenameVertex" -> RenameVertex(t[3], t[4])
      [] operation = "RenameEdge" -> RenameEdge(t[3], t[4])
      [] operation = "MoveEdgeTarget" -> MoveEdgeTarget(t[3], t[4])
      [] operation = "MoveEdgeSource" -> MoveEdgeSource(t[3], t[4])

\* operations.entry(id).or_default().push(op)
push_operation(operations, id, op) ==
    IF id \in DOMAIN operations
    THEN [operations EXCEPT ![id] = Append(@, op)]
    ELSE Insert(operations, id, <<op>>)

\* faulty variant: the relation-name column is not compared
RECURSIVE decode_rows_unfiltered(_, _, _, _)
decode_rows_unfiltered(operations, operation, rows, relation_name) ==
    IF rows = <<>>
    THEN operations
    ELSE decode_rows_unfiltered(
             push_operation(operations, Head(rows)[2],
                            construct(operation, Head(rows))),
             operation, Tail(rows), relation_name)

\* while hasNext(&iter): the rows of one operation relation
RECURSIVE decode_rows(_, _, _, _)
decode_rows(operations, operation, rows, relation_name) ==
    IF rows = <<>>
    THEN operations
    ELSE LET t == Head(rows)
         IN  decode_rows(
                 IF t[1] = relation_name
                 THEN push_operation(operations, t[2], construct(operation, t))
                 ELSE operations,
                 operation, Tail(rows), relation_name)

\* for operation in OPERATIONS.iter(): a relation the program lacks is skipped
RECURSIVE decode(_, _, _, _)
decode(program, relation_name, operations, i) ==
    IF i > Len(OPERATIONS)
    THEN operations
    ELSE LET rel == get_relation_name(OPERATIONS[i])
         IN  decode(program, relation_name,
                    IF rel \in DOMAIN program.outputs
                    THEN decode_rows(operations, OPERATIONS[i],
                                     program.outputs[rel], relation_name)
                    ELSE operations,
                    i + 1)

\* faulty variant: the relation state is left as the run made it
generate_operations_no_purge(program, relation_name, g, target_graph) ==
    LET encoded == encode_input_graph(program, g)
        ran == runProgram(IF target_graph = {}
                          THEN encoded
                          ELSE encode_target_graph(
                                   encoded, CHOOSE t \in target_graph : TRUE))
    IN  IF ~has_relation(ran, relation_name)
        THEN [status |-> "panicked", program |-> ran, operations |-> EmptyMap,
              seen |-> ran.inputs, steps |-> <<"encode", "evaluate">>]
        ELSE [status |-> "returned", program |-> ran,
              operations |-> decode(ran, relation_name, EmptyMap, 1),
              seen |-> ran.inputs,
              steps |-> <<"encode", "evaluate", "decode", "purge">>]

(***************************************************************************)
(* generate_operations.  target_graph is the empty set (None) or holds the *)
(* target.  The call panics at expect when the evaluator has no relation   *)
(* of the requested name; `seen` keeps the facts the run was made on and   *)
(* `steps` the steps made, in order.                                       *)
(***************************************************************************)
generate_operations(program, relation_name, g, target_graph) ==
    LET encoded == encode_input_graph(program, g)
        ran == runProgram(IF target_graph = {}
                          THEN encoded
                          ELSE encode_target_graph(
                                   encoded, CHOOSE t \in target_graph : TRUE))
    IN  IF ~has_relation(ran, relation_name)
        THEN [status |-> "panicked", program |-> ran, operations |-> EmptyMap,
              seen |-> ran.inputs, steps |-> <<"encode", "evaluate">>]
        ELSE [status |-> "returned", program |-> purgeProgram(ran),
              operations |-> decode(ran, relation_name, EmptyMap, 1),
              seen |-> ran.inputs,
              steps |-> <<"encode", "evaluate", "decode", "purge">>]

(***************************************************************************)
(* apply_transformations on one handle, graph after graph.  pc is the      *)
(* place of the caller: "idle" between graphs, "next" before the next      *)
(* relation name, "materialize" inside the loop over the batches,          *)
(* "panicked" after a panic.                                               *)
(***************************************************************************)
MaxRuns == 2

\* (x : A), (y : B) / (x : A {k 1}), (y), (:x)-[p : R]->(:y) / no element
OracleGraphs ==
    LET x   == build_node(PropertyGraphDefault, "x", <<"A">>, EmptyMap)
        xk  == build_node(PropertyGraphDefault, "x", <<"A">>,
                          Insert(EmptyMap, "k", "1"))
        xky == build_node(xk, "y", <<>>, EmptyMap)
    IN  <<build_node(x, "y", <<"B">>, EmptyMap),
          build_edge(xky, 0, 1, "p", <<"R">>, EmptyMap),
          PropertyGraphDefault>>

\* no target, or the target (x : B)
TargetGraphs ==
    {{}, {build_node(PropertyGraphDefault, "x", <<"B">>, EmptyMap)}}

\* the relation names asked for; the program has no relation "Missing"
RelNames ==
    {<<"Relabel">>, <<"TagAll", "Drop">>, <<"Rename">>, <<"Missing", "Relabel">>}

\* the filters handle_graph is called with, by the predicate as_filter wraps:
\* deftest of main (|_| true) and a filter that holds for no result
Filters == {"deftest", "nothing"}

\* as_filter: Ok when the predicate holds for x and Err when it does not;
\* TRUE stands for Ok
as_filter(filter, x) == filter = "deftest"

\* apply_filters: ftrs(&g)
apply_filters(h, ftrs) == as_filter(ftrs, h)

NoGeneration ==
    [status |-> "none", relation_name |-> "", g |-> 0, target |-> {},
     operations |-> EmptyMap, seen |-> EmptyMap]

OracleStart ==
    [pc |-> "idle", program |-> newInstance, g |-> 0, target |-> {},
     requested |-> <<>>, rel_names |-> <<>>, operations |-> EmptyMap,
     res |-> <<>>, emitted |-> <<>>, steps |-> <<>>, last |-> NoGeneration,
     runs |-> 0, ftrs |-> "deftest"]

InitOracle ==
    /\ lm = LabelMapDefault
    /\ last = NoCall
    /\ pre = [gt |-> GtIdle, res |-> <<>>]
    /\ hist = HistDefault
    /\ gt = GtIdle
    /\ batch = <<>>
    /\ res = <<>>
    /\ todo = {}
    /\ parse = <<>>
    /\ oracle = OracleStart
    /\ pipe = <<>>
    /\ rank = <<>>

\* for operation in transfo: a panic ends the batch
RECURSIVE apply_batch(_, _)
apply_batch(ng, transfo) ==
    IF transfo = <<>> \/ ng.status # "running"
    THEN ng
    ELSE apply_batch(apply(ng, Head(transfo)), Tail(transfo))

\* apply_transformations is called for a graph
StartGraph(g, target, rel_names, ftrs) ==
    /\ oracle.pc = "idle"
    /\ oracle.runs < MaxRuns
    /\ oracle' = [oracle EXCEPT !.pc = "next", !.g = g, !.target = target,
                                !.ftrs = ftrs,
                                !.requested = rel_names,
                                !.rel_names = rel_names, !.res = <<>>,
                                !.steps = <<>>]
    /\ UNCHANGED <<lm, last, pre, hist, gt, batch, res, todo, parse, pipe, rank>>

\* apply_single_transformation up to the loop: generate_operations
GenerateOperations ==
    /\ oracle.pc = "next"
    /\ oracle.rel_names # <<>>
    /\ LET name == Head(oracle.rel_names)
           r == generate_operations(oracle.program, name,
                                    OracleGraphs[oracle.g], oracle.target)
       IN  oracle' =
               [oracle EXCEPT
                   !.pc = IF r.status = "panicked" THEN "panicked"
                          ELSE "materialize",
                   !.program = r.program,
                   !.operations = r.operations,
                   !.steps = @ \o [i \in DOMAIN r.steps |-> <<name, r.steps[i]>>],
                   !.last = [status |-> r.status, relation_name |-> name,
                             g |-> oracle.g, target |-> oracle.target,
                             operations |-> r.operations, seen |-> r.seen]]
    /\ UNCHANGED <<lm, last, pre, hist, gt, batch, res, todo, parse, pipe, rank>>

\* one round of the loop over operations.values(): the batch is applied to
\* g.into() and the result is pushed when its names are unique
Materialize(id) ==
    /\ oracle.pc = "materialize"
    /\ id \in DOMAIN oracle.operations
    /\ LET name == Head(oracle.rel_names)
           ng == apply_batch(GraphTransformationFrom(OracleGraphs[oracle.g]),
                             oracle.operations[id])
       IN  oracle' =
               IF ng.status # "running"
               THEN [oracle EXCEPT !.pc = "panicked",
                                   !.steps = Append(@, <<name, "materialize">>)]
               ELSE [oracle EXCEPT
                        !.operations = Remove(@, id),
                        !.res = IF check_unique_names(ng.result)
                                THEN Append(@, ng) ELSE @,
                        !.steps = @ \o << <<name, "materialize">>,
                                          <<name, "filter">> >>]
    /\ UNCHANGED <<lm, last, pre, hist, gt, batch, res, todo, parse, pipe, rank>>

DoMaterialize == \E id \in DOMAIN oracle.operations : Materialize(id)

\* the loop is over: apply_single_transformation returns res
EndSingleTransformation ==
    /\ oracle.pc = "materialize"
    /\ DOMAIN oracle.operations = {}
    /\ oracle' = [oracle EXCEPT !.pc = "next", !.rel_names = Tail(@)]
    /\ UNCHANGED <<lm, last, pre, hist, gt, batch, res, todo, parse, pipe, rank>>

\* apply_transformations has returned r: one round of `for h in r` of
\* handle_graph.  The result is sent when the filter gives Ok and is passed
\* over when it gives Err; connected tells whether the receiver of the
\* channel is still there: send(..).unwrap() panics when it is not.
Emit(connected) ==
    /\ oracle.pc = "next"
    /\ oracle.rel_names = <<>>
    /\ oracle.res # <<>>
    /\ LET h == Head(oracle.res)
       IN  oracle' =
               IF ~apply_filters(h, oracle.ftrs)
               THEN [oracle EXCEPT !.res = Tail(@)]
               ELSE IF connected
                    THEN [oracle EXCEPT !.res = Tail(@),
                                        !.emitted = Append(@, h),
                                        !.steps = Append(@, <<"", "emit">>)]
                    ELSE [oracle EXCEPT !.pc = "panicked"]
    /\ UNCHANGED <<lm, last, pre, hist, gt, batch, res, todo, parse, pipe, rank>>

DoEmit == \E connected \in BOOLEAN : Emit(connected)

\* the loop over r is over: handle_graph returns, and its filter is that of
\* no call
EndHandleGraph ==
    /\ oracle.pc = "next"
    /\ oracle.rel_names = <<>>
    /\ oracle.res = <<>>
    /\ oracle' = [oracle EXCEPT !.pc = "idle", !.runs = @ + 1,
                                !.ftrs = OracleStart.ftrs]
    /\ UNCHANGED <<lm, last, pre, hist, gt, batch, res, todo, parse, pipe, rank>>

DoStartGraph ==
    \E g \in DOMAIN OracleGraphs, target \in TargetGraphs, rel_names \in RelNames,
       ftrs \in Filters :
        StartGraph(g, target, rel_names, ftrs)

NextOracle ==
    \/ DoStartGraph
    \/ GenerateOperations
    \/ DoMaterialize
    \/ EndSingleTransformation
    \/ DoEmit
    \/ EndHandleGraph

SpecOracle == InitOracle /\ [][NextOracle]_vars

\* the facts encode_graph gives a fresh instance for g and the target
Encoding(g, target) ==
    LET encoded == encode_input_graph(newInstance, g)
    IN  (IF target = {}
         THEN encoded
         ELSE encode_target_graph(encoded, CHOOSE t \in target : TRUE)).inputs

\* C21: whenever generate_operations has returned, the relations of the
\* handle are empty again, the run was made on exactly the facts that encode
\* the graph of the call (and the target, when there is one), and the
\* operations decoded are those a fresh handle gives for the same graph,
\* however many graphs the handle has served before.
C21_OracleRerunnable ==
    /\ oracle.pc # "panicked" => oracle.program = purgeProgram(newInstance)
    /\ oracle.last.status = "returned" =>
          /\ oracle.last.seen =
                 Encoding(OracleGraphs[oracle.last.g], oracle.last.target)
          /\ oracle.last.operations =
                 generate_operations(newInstance, oracle.last.relation_name,
                                     OracleGraphs[oracle.last.g],
                                     oracle.last.target).operations

\* the handle has served a graph with results before, and now returns
\* operations for another graph
C21_Witness ==
    /\ oracle.runs = 1
    /\ oracle.emitted # <<>>
    /\ oracle.emitted[1].init # OracleGraphs[oracle.g]
    /\ oracle.pc = "materialize"
    /\ oracle.last.status = "returned"
    /\ DOMAIN oracle.last.operations # {}

\* C22: a call that names a relation the evaluator does not have ends as the
\* typed failure UnknownRelation given back to the caller, with no panic; a
\* call that names a relation it has returns, whatever operation relations
\* the program lacks, and decodes no operation of a kind whose relation the
\* program lacks.
C22_RelationLookup ==
    /\ (oracle.last.status # "none"
        /\ ~has_relation(newInstance, oracle.last.relation_name)) =>
          /\ oracle.last.status = "UnknownRelation"
          /\ oracle.pc # "panicked"
    /\ (oracle.last.status # "none"
        /\ has_relation(newInstance, oracle.last.relation_name)) =>
          /\ oracle.last.status = "returned"
          /\ \A id \in DOMAIN oracle.last.operations :
                 \A i \in DOMAIN oracle.last.operations[id] :
                     get_relation_name(oracle.last.operations[id][i].kind)
                         \in DOMAIN newInstance.outputs

\* the rows the output relations held when the last call decoded them
RowsDecoded == runProgram([newInstance EXCEPT !.inputs = oracle.last.seen]).outputs

\* the rows of the relation of an operation kind, among the rows decoded,
\* that name the relation asked for and the batch id, in the order of the
\* relation
RowsOf(decoded, operation, relation_name, id) ==
    IF get_relation_name(operation) \in DOMAIN decoded
    THEN SelectSeq(decoded[get_relation_name(operation)],
                   LAMBDA t : t[1] = relation_name /\ t[2] = id)
    ELSE <<>>

\* C23: after a call for relation R has returned, the batches decoded are the
\* batch ids of the rows that name R, and for every operation kind and batch
\* the operations of that kind in the batch are the operations of the rows of
\* the kind's relation that name R and the batch, one per row and in the
\* order of the rows; rows naming another relation give no operation.
C23_Decoding ==
    oracle.last.status = "returned" =>
        LET R == oracle.last.relation_name
            ops == oracle.last.operations
            decoded == RowsDecoded
            ids == UNION {{t[2] : t \in {u \in Range(decoded[rel]) : u[1] = R}} :
                             rel \in OperationRelations}
        IN  /\ DOMAIN ops = ids
            /\ \A id \in ids, k \in DOMAIN OPERATIONS :
                   LET rows == RowsOf(decoded, OPERATIONS[k], R, id)
                   IN  SelectSeq(ops[id], LAMBDA op : op.kind = OPERATIONS[k])
                           = [i \in DOMAIN rows |-> construct(OPERATIONS[k], rows[i])]

\* the relation AddVertexLabel_ holds rows of Relabel and of TagAll, and the
\* batch decoded for TagAll has two operations of that kind
C23_Witness ==
    /\ oracle.last.status = "returned"
    /\ oracle.last.relation_name = "TagAll"
    /\ \E t \in Range(RowsDecoded["AddVertexLabel_"]) : t[1] = "Relabel"
    /\ 0 \in DOMAIN oracle.last.operations
    /\ Len(oracle.last.operations[0]) = 2
    /\ oracle.last.operations[0][1] # oracle.last.operations[0][2]

(***************************************************************************)
(* The steps of apply_transformations for one graph, statement by          *)
(* statement: generate_operations is gone through as its encode, its run,  *)
(* its lookup of the relation asked for, its decoding and its purge.  pc   *)
(* is "encoded" after the graph is encoded, "evaluated" after the run,     *)
(* "found" after the lookup, "decoded" after the decoding, "materialize"   *)
(* inside the loop over the batches and "handle" once apply_transformations*)
(* has returned its results to its caller.  steps logs the steps made for  *)
(* the graph with the relation name they were made for.                    *)
(***************************************************************************)
StepsStart ==
    [pc |-> "idle", program |-> newInstance, g |-> 0, target |-> {},
     requested |-> <<>>, rel_names |-> <<>>, operations |-> EmptyMap,
     res |-> <<>>, emitted |-> <<>>, steps |-> <<>>, last |-> NoGeneration,
     runs |-> 0, ftrs |-> "deftest", returned |-> <<>>, ranked |-> <<>>]

InitSteps ==
    /\ lm = LabelMapDefault
    /\ last = NoCall
    /\ pre = [gt |-> GtIdle, res |-> <<>>]
    /\ hist = HistDefault
    /\ gt = GtIdle
    /\ batch = <<>>
    /\ res = <<>>
    /\ todo = {}
    /\ parse = <<>>
    /\ oracle = StepsStart
    /\ pipe = <<>>
    /\ rank = <<>>

\* generate_operations: encode_input_graph(program, g) and, with a target,
\* encode_target_graph(program, target)
EncodeGraph ==
    /\ oracle.pc = "next"
    /\ oracle.rel_names # <<>>
    /\ LET encoded == encode_input_graph(oracle.program, OracleGraphs[oracle.g])
       IN  oracle' =
               [oracle EXCEPT
                   !.pc = "encoded",
                   !.program = IF oracle.target = {}
                               THEN encoded
                               ELSE encode_target_graph(
                                        encoded, CHOOSE t \in oracle.target : TRUE),
                   !.steps = Append(@, <<Head(oracle.rel_names), "encode">>)]
    /\ UNCHANGED <<lm, last, pre, hist, gt, batch, res, todo, parse, pipe, rank>>

\* generate_operations: souffle_ffi::runProgram(program)
RunProgram ==
    /\ oracle.pc = "encoded"
    /\ oracle' = [oracle EXCEPT
                      !.pc = "evaluated",
                      !.program = runProgram(@),
                      !.steps = Append(@, <<Head(oracle.rel_names), "evaluate">>)]
    /\ UNCHANGED <<lm, last, pre, hist, gt, batch, res, todo, parse, pipe, rank>>

\* generate_operations: get_relation(program, relation_name).expect(..), a
\* panic when the program has no relation of the name; the ids the
\* relation holds are read and left aside
GetRelation ==
    /\ oracle.pc = "evaluated"
    /\ oracle' = [oracle EXCEPT
                      !.pc = IF has_relation(oracle.program, Head(oracle.rel_names))
                             THEN "found" ELSE "panicked"]
    /\ UNCHANGED <<lm, last, pre, hist, gt, batch, res, todo, parse, pipe, rank>>

\* generate_operations: the loop over OPERATIONS
DecodeOperations ==
    /\ oracle.pc = "found"
    /\ oracle' = [oracle EXCEPT
                      !.pc = "decoded",
                      !.operations = decode(oracle.program, Head(oracle.rel_names),
                                            EmptyMap, 1),
                      !.steps = Append(@, <<Head(oracle.rel_names), "decode">>)]
    /\ UNCHANGED <<lm, last, pre, hist, gt, batch, res, todo, parse, pipe, rank>>

\* generate_operations: souffle_ffi::purgeProgram(program) and the return
\* of operations; last keeps what the call returned and the facts it ran on
PurgeProgram ==
    /\ oracle.pc = "decoded"
    /\ oracle' = [oracle EXCEPT
                      !.pc = "materialize",
                      !.program = purgeProgram(@),
                      !.steps = Append(@, <<Head(oracle.rel_names), "purge">>),
                      !.last = [status |-> "returned",
                                relation_name |-> Head(oracle.rel_names),
                                g |-> oracle.g, target |-> oracle.target,
                                operations |-> oracle.operations,
                                seen |-> oracle.program.inputs]]
    /\ UNCHANGED <<lm, last, pre, hist, gt, batch, res, todo, parse, pipe, rank>>

\* apply_transformations returns what flat_map collected to its caller
ReturnTransformations ==
    /\ oracle.pc = "next"
    /\ oracle.rel_names = <<>>
    /\ oracle' = [oracle EXCEPT !.pc = "handle", !.returned = oracle.res,
                                !.res = <<>>]
    /\ UNCHANGED <<lm, last, pre, hist, gt, batch, res, todo, parse, pipe, rank>>

\* faulty variant: a result is passed on as soon as it is pushed to res,
\* before apply_transformations has returned
Consume_early ==
    /\ oracle.pc \in {"next", "materialize", "handle"}
    /\ oracle.res \o oracle.returned # <<>>
    /\ LET h == Head(oracle.res \o oracle.returned)
       IN  oracle' =
               [oracle EXCEPT
                   !.res = IF oracle.res # <<>> THEN Tail(@) ELSE @,
                   !.returned = IF oracle.res # <<>> THEN @ ELSE Tail(@),
                   !.emitted = IF oracle.target = {} THEN Append(@, h) ELSE @,
                   !.ranked = IF oracle.target = {} THEN @ ELSE Append(@, h),
                   !.steps = Append(@, <<"", "emit">>)]
    /\ UNCHANGED <<lm, last, pre, hist, gt, batch, res, todo, parse, pipe, rank>>

\* the caller of apply_transformations passes one of the results returned
\* on: without a target the result is emitted, with a target it is ranked
Consume ==
    /\ oracle.pc = "handle"
    /\ oracle.returned # <<>>
    /\ LET h == Head(oracle.returned)
       IN  oracle' =
               [oracle EXCEPT
                   !.returned = Tail(@),
                   !.emitted = IF oracle.target = {} THEN Append(@, h) ELSE @,
                   !.ranked = IF oracle.target = {} THEN @ ELSE Append(@, h),
                   !.steps = Append(@, <<"", "emit">>)]
    /\ UNCHANGED <<lm, last, pre, hist, gt, batch, res, todo, parse, pipe, rank>>

\* every result returned is passed on: the graph is done
EndGraph ==
    /\ oracle.pc = "handle"
    /\ oracle.returned = <<>>
    /\ oracle' = [oracle EXCEPT !.pc = "idle", !.runs = @ + 1]
    /\ UNCHANGED <<lm, last, pre, hist, gt, batch, res, todo, parse, pipe, rank>>

DoStartSteps ==
    \E g \in DOMAIN OracleGraphs, target \in TargetGraphs, rel_names \in RelNames :
        StartGraph(g, target, rel_names, "deftest")

NextSteps ==
    \/ DoStartSteps
    \/ EncodeGraph
    \/ RunProgram
    \/ GetRelation
    \/ DecodeOperations
    \/ PurgeProgram
    \/ DoMaterialize
    \/ EndSingleTransformation
    \/ ReturnTransformations
    \/ Consume
    \/ EndGraph

SpecSteps == InitSteps /\ [][NextSteps]_vars

\* The steps logged for one graph are read against the order of the claim.
\* names are the relation names not yet finished, the current one first;
\* phase is the step made last.
RECURSIVE Ordered(_, _, _)
Ordered(steps, names, phase) ==
    IF steps = <<>>
    THEN TRUE
    ELSE LET n == Head(steps)[1]
             s == Head(steps)[2]
             rest == Tail(steps)
         IN  CASE s = "encode" ->
                      \/ /\ phase = "start"
                         /\ names # <<>> /\ n = Head(names)
                         /\ Ordered(rest, names, "encode")
                      \/ /\ phase \in {"purge", "filter"}
                         /\ Tail(names) # <<>> /\ n = Head(Tail(names))
                         /\ Ordered(rest, Tail(names), "encode")
               [] s = "evaluate" ->
                      phase = "encode" /\ n = Head(names)
                      /\ Ordered(rest, names, "evaluate")
               [] s = "decode" ->
                      phase = "evaluate" /\ n = Head(names)
                      /\ Ordered(rest, names, "decode")
               [] s = "purge" ->
                      phase = "decode" /\ n = Head(names)
                      /\ Ordered(rest, names, "purge")
               [] s = "materialize" ->
                      phase \in {"purge", "filter"} /\ n = Head(names)
                      /\ Ordered(rest, names, "materialize")
               [] s = "filter" ->
                      phase = "materialize" /\ n = Head(names)
                      /\ Ordered(rest, names, "filter")
               [] s = "emit" ->
                      /\ \/ phase \in {"purge", "filter"} /\ Tail(names) = <<>>
                         \/ phase = "emit"
                      /\ Ordered(rest, names, "emit")
               [] OTHER -> FALSE

\* how many times the step is logged for the relation name
Count(steps, name, step) ==
    Cardinality({i \in DOMAIN steps : steps[i] = <<name, step>>})

\* the evaluator has run once for each relation name asked for
EvaluatedOnce ==
    \A i \in DOMAIN oracle.requested :
        Count(oracle.steps, oracle.requested[i], "evaluate")
            = Cardinality({j \in DOMAIN oracle.requested :
                              oracle.requested[j] = oracle.requested[i]})

\* the instance after a run on the facts that encode the graph of the call
Ran ==
    runProgram([newInstance EXCEPT
                   !.inputs = Encoding(OracleGraphs[oracle.g], oracle.target)])

\* the result is that of a batch of the graph of the call, with unique
\* vertex names and unique edge names
Materialized(h) ==
    /\ h.status = "running"
    /\ h.init = OracleGraphs[oracle.g]
    /\ NamesUnique(h.result)

\* C25: for every graph and every relation name asked for, the program is
\* run on the facts that encode the graph, and on nothing else; the
\* operations are decoded from the rows of that run; the relations are
\* purged once the operations are decoded and before a batch is
\* materialized; the batches are then materialized and filtered one by one;
\* the results are returned once this is done for every relation name, and
\* rank or emit takes them one by one from what was returned.  So the steps
\* logged follow the order encode, evaluate, decode, purge, then materialize
\* and filter batch by batch, relation name after relation name, and the
\* emits last; when a result is ranked or emitted the evaluator has run
\* exactly once for each relation name asked for; every result kept,
\* returned, ranked or emitted is a materialized batch of the graph with
\* unique vertex names and unique edge names; and after a panic no step is
\* made.
C25_StateMachine ==
    /\ [](/\ Ordered(oracle.steps, oracle.requested, "start")
          /\ oracle.pc = "encoded" =>
                 /\ oracle.program.inputs
                        = Encoding(OracleGraphs[oracle.g], oracle.target)
                 /\ oracle.program.outputs = newInstance.outputs
          /\ oracle.pc \in {"evaluated", "found"} => oracle.program = Ran
          /\ oracle.pc = "decoded" =>
                 /\ oracle.program = Ran
                 /\ oracle.operations
                        = decode(Ran, Head(oracle.rel_names), EmptyMap, 1)
          /\ oracle.pc \in {"idle", "next", "materialize", "handle"} =>
                 oracle.program = purgeProgram(newInstance)
          /\ oracle.pc = "materialize" =>
                 /\ oracle.last.relation_name = Head(oracle.rel_names)
                 /\ oracle.last.operations
                        = generate_operations(newInstance, Head(oracle.rel_names),
                                              OracleGraphs[oracle.g],
                                              oracle.target).operations
                 /\ DOMAIN oracle.operations \subseteq DOMAIN oracle.last.operations
                 /\ Count(oracle.steps, Head(oracle.rel_names), "filter")
                        >= Cardinality(DOMAIN oracle.last.operations
                                          \ DOMAIN oracle.operations)
          /\ \A i \in DOMAIN oracle.requested :
                 Count(oracle.steps, oracle.requested[i], "evaluate")
                     <= Cardinality({j \in DOMAIN oracle.requested :
                                        oracle.requested[j] = oracle.requested[i]})
          /\ oracle.pc = "handle" => EvaluatedOnce
          /\ Len(oracle.res)
                 <= Cardinality({i \in DOMAIN oracle.steps :
                                    oracle.steps[i][2] = "filter"})
          /\ \A i \in DOMAIN oracle.res : Materialized(oracle.res[i])
          /\ \A i \in DOMAIN oracle.returned : Materialized(oracle.returned[i])
          /\ oracle.pc # "handle" => oracle.returned = <<>>
          /\ \A i \in DOMAIN oracle.emitted : NamesUnique(oracle.emitted[i].result)
          /\ \A i \in DOMAIN oracle.ranked : NamesUnique(oracle.ranked[i].result)
          /\ oracle.pc = "panicked" =>
                 oracle.steps[Len(oracle.steps)][2] \in {"evaluate", "materialize"})
    /\ [][/\ oracle.pc = "panicked" => oracle' = oracle
          /\ (oracle'.emitted # oracle.emitted \/ oracle'.ranked # oracle.ranked) =>
                 /\ oracle.pc = "handle"
                 /\ oracle.returned # <<>>
                 /\ Materialized(Head(oracle.returned))
                 /\ EvaluatedOnce
                 /\ oracle'.returned = Tail(oracle.returned)
                 /\ IF oracle.target = {}
                    THEN /\ oracle'.emitted
                                = Append(oracle.emitted, Head(oracle.returned))
                         /\ oracle'.ranked = oracle.ranked
                    ELSE /\ oracle'.ranked
                                = Append(oracle.ranked, Head(oracle.returned))
                         /\ oracle'.emitted = oracle.emitted
          /\ oracle'.returned # oracle.returned =>
                 \/ /\ oracle.returned # <<>>
                    /\ oracle'.returned = Tail(oracle.returned)
                 \/ /\ oracle.pc = "next" /\ oracle.rel_names = <<>>
                    /\ oracle'.returned = oracle.res
                    /\ EvaluatedOnce]_vars

\* a graph went through every step: some batch gave a result that was emitted
\* and some batch was dropped by the filter
C25_Witness ==
    /\ oracle.pc = "idle"
    /\ oracle.runs = 1
    /\ oracle.emitted # <<>>
    /\ Count(oracle.steps, oracle.requested[1], "evaluate") = 1
    /\ Len(oracle.emitted)
           < Cardinality({i \in DOMAIN oracle.steps : oracle.steps[i][2] = "filter"})

\* ---------------------------------------------------------------------------
\* The driver: main, the worker pool and the sink thread
\* ---------------------------------------------------------------------------

\* the largest number of input graphs
MaxGraphs == 2

\* the largest number of threads of the pool
MaxWorkers == 2

\* the largest size of the channel
MaxChannel == 1

\* the numbers of graphs the transformations can give for one input graph
ResultCounts == {0, 1, 2}

\* the transformations given on the command line
Arguments == {<<"Missing", "Relabel", "TagAll">>, <<"Missing">>}

\* the input graph of rank g
InputGraph(g) == OracleGraphs[((g - 1) % Len(OracleGraphs)) + 1]

\* no error
NoError == [kind |-> "none", g |-> 0]

\* a worker of the pool before its first graph
WorkerStart == [pc |-> "idle", g |-> 0, handle |-> 0, names |-> <<>>,
                out |-> <<>>, seen |-> EmptyMap]

\* the state at the entry of main
PipeStart ==
    [pc |-> "start", result |-> NoError, transfos |-> <<>>, channel_size |-> 0,
     num_threads |-> 0, chan |-> <<>>, sink |-> "none", received |-> <<>>,
     produced |-> {}, v |-> <<>>, input |-> 0, injected |-> <<>>,
     deques |-> <<>>, leaf |-> <<>>, scheduled |-> <<>>,
     workers |-> <<>>, handles |-> EmptyMap, next_handle |-> 1, freed |-> {},
     done |-> {}, failed |-> {}, failures |-> <<>>, results |-> EmptyMap,
     joined |-> FALSE, senders |-> 0, program |-> "", printed |-> <<>>,
     code |-> 0]

InitPipe ==
    /\ lm = LabelMapDefault
    /\ last = NoCall
    /\ pre = [gt |-> GtIdle, res |-> <<>>]
    /\ hist = HistDefault
    /\ gt = GtIdle
    /\ batch = <<>>
    /\ res = <<>>
    /\ todo = {}
    /\ parse = <<>>
    /\ oracle = <<>>
    /\ pipe = PipeStart
    /\ rank = <<>>

\* the names that are relations of the program, in the order given
RECURSIVE known_transfos(_, _)
known_transfos(program, arg_transformations) ==
    IF arg_transformations = <<>>
    THEN <<>>
    ELSE (IF has_relation(program, Head(arg_transformations))
          THEN <<Head(arg_transformations)>>
          ELSE <<>>)
         \o known_transfos(program, Tail(arg_transformations))

\* the names <program> is given in the runs explored
ProgramNames == Programs \cup {"nope"}

\* main up to the panic on an empty list of transformations.  A name of no
\* program gives no instance and a panic.  With --transfos the instance is
\* run by get_transfos, the names are printed and the process exits, with
\* 0 or, when the program has no relation Transformation, with 1: the
\* instance is not freed.  Otherwise the names are looked up in the
\* instance and it is freed.
Probe(arg_program, flag_transfos, arg_transformations) ==
    /\ pipe.pc = "start"
    /\ LET prog == pipe.next_handle
           instance == create_program_instance(arg_program)
           listed == get_transfos(instance)
           transfos == known_transfos(instance, arg_transformations)
       IN  pipe' =
               IF arg_program \notin Programs
               THEN [pipe EXCEPT !.pc = "panicked"]
               ELSE IF flag_transfos
                    THEN [pipe EXCEPT !.next_handle = prog + 1,
                                      !.handles = (prog :> listed.program) @@ @,
                                      !.printed = listed.names,
                                      !.code = IF listed.some THEN 0 ELSE 1,
                                      !.pc = "exited"]
                    ELSE [pipe EXCEPT !.program = arg_program,
                                      !.transfos = transfos,
                                      !.next_handle = prog + 1,
                                      !.freed = @ \cup {prog},
                                      !.pc = IF transfos = <<>>
                                             THEN "panicked" ELSE "channel"]
    /\ UNCHANGED <<lm, last, pre, hist, gt, batch, res, todo, parse, oracle, rank>>

\* the thread pool is built, the channel is made and the sink thread is
\* spawned: main holds result_sender.  build_global()? returns the error
\* ThreadPool and builder.spawn(..)? the error Io from main, with no sink
\* thread.
Spawn(channel_size, num_threads, outcome) ==
    /\ pipe.pc = "channel"
    /\ pipe' = IF outcome = "ok"
               THEN [pipe EXCEPT
                        !.channel_size = channel_size,
                        !.num_threads = num_threads,
                        !.workers = [w \in 1..num_threads |-> WorkerStart],
                        !.sink = "running",
                        !.senders = 1,
                        !.pc = "read"]
               ELSE [pipe EXCEPT !.result = [kind |-> outcome, g |-> 0],
                                 !.pc = "returned"]
    /\ UNCHANGED <<lm, last, pre, hist, gt, batch, res, todo, parse, oracle, rank>>

\* buf.read_to_string(&mut text)? and convert_text, while the sink thread
\* runs.  A read that fails returns the error Io from main and a text that
\* convert_text cannot read panics in main: either way main is left without
\* the join and result_sender, a local of main, is dropped, so that no
\* sender is left.  Otherwise handle_graphs is handed a clone of
\* result_sender when there is a graph: the list of the graphs is one job
\* handed to the pool, whose threads have nothing to do yet.
ReadInput(graphs, outcome) ==
    /\ pipe.pc = "read"
    /\ pipe' = CASE outcome = "ok" ->
                    [pipe EXCEPT
                        !.v = [g \in 1..graphs |-> g],
                        !.input = graphs,
                        !.injected = IF graphs = 0
                                     THEN <<>> ELSE <<[g \in 1..graphs |-> g]>>,
                        !.deques = [w \in DOMAIN pipe.workers |-> <<>>],
                        !.leaf = [w \in DOMAIN pipe.workers |-> <<>>],
                        !.senders = IF graphs = 0 THEN 1 ELSE 2,
                        !.pc = IF graphs = 0 THEN "drop" ELSE "handle_graphs"]
                 [] outcome = "Io" ->
                    [pipe EXCEPT !.result = [kind |-> "Io", g |-> 0],
                                 !.senders = 0,
                                 !.pc = "returned"]
                 [] outcome = "panicked" ->
                    [pipe EXCEPT !.senders = 0, !.pc = "panicked"]
    /\ UNCHANGED <<lm, last, pre, hist, gt, batch, res, todo, parse, oracle, rank>>

\* handle_graph up to its first send, for the input graph of rank g: r =
\* apply_transfos(&g, trsf) has n graphs and apply_filters gives Ok for
\* those of rank in kept; the messages to send are those, in the order of r
handle_graph(g, n, kept) ==
    LET r == [i \in 1..n |-> <<g, i>>]
    IN  SelectSeq(r, LAMBDA h : h[2] \in kept)

\* the lengths the first part of a list of len graphs can have when the list
\* is halved again and again: a list is split at len / 2
RECURSIVE halvings(_)
halvings(len) == IF len <= 1 THEN {len} ELSE {len} \cup halvings(len \div 2)

\* the second parts left aside when the list job is halved down to a first
\* part of m graphs, the largest first
RECURSIVE right_halves(_, _)
right_halves(job, m) ==
    IF Len(job) <= m
    THEN <<>>
    ELSE LET mid == Len(job) \div 2
         IN  <<SubSeq(job, mid + 1, Len(job))>>
                 \o right_halves(SubSeq(job, 1, mid), m)

\* v.into_par_iter().for_each_with(t, ..): a thread of the pool that is
\* between two lists takes a list of graphs, the one it left aside last
\* (from = w) or, when it has none, the oldest one another thread left aside
\* or the whole input (from = 0).  It halves the list, leaving each second
\* half aside for later or for another thread, down to a first part of m
\* graphs that it goes through in order.  How far a list is halved is up to
\* the pool; the whole input and a list taken from another thread are
\* halved at least once when they hold two graphs or more.
Split(w, from, m) ==
    /\ pipe.pc = "handle_graphs"
    /\ pipe.workers[w].pc = "idle"
    /\ pipe.leaf[w] = <<>>
    /\ IF from = w
       THEN pipe.deques[w] # <<>>
       ELSE /\ pipe.deques[w] = <<>>
            /\ IF from = 0 THEN pipe.injected # <<>> ELSE pipe.deques[from] # <<>>
    /\ LET job == IF from = w THEN pipe.deques[w][Len(pipe.deques[w])]
                  ELSE IF from = 0 THEN Head(pipe.injected)
                  ELSE Head(pipe.deques[from])
           own == IF from = w
                  THEN SubSeq(pipe.deques[w], 1, Len(pipe.deques[w]) - 1)
                  ELSE <<>>
       IN  /\ m \in halvings(Len(job))
           /\ (from # w /\ Len(job) >= 2) => m < Len(job)
           /\ pipe' = [pipe EXCEPT
                           !.injected = IF from = 0 THEN Tail(@) ELSE @,
                           !.deques = [x \in DOMAIN @ |->
                                          IF x = w THEN own \o right_halves(job, m)
                                          ELSE IF x = from THEN Tail(@[x])
                                          ELSE @[x]],
                           !.leaf[w] = SubSeq(job, 1, m)]
    /\ UNCHANGED <<lm, last, pre, hist, gt, batch, res, todo, parse, oracle, rank>>

\* the thread runs handle_graph on the next graph of the list it goes
\* through, whatever became of the graphs handled before; failed keeps the
\* graphs that had panicked by then
HandleGraph(w, g, n, kept) ==
    /\ pipe.pc = "handle_graphs"
    /\ pipe.workers[w].pc = "idle"
    /\ pipe.leaf[w] # <<>>
    /\ g = Head(pipe.leaf[w])
    /\ kept \subseteq 1..n
    /\ LET r == handle_graph(g, n, kept)
       IN  pipe' = [pipe EXCEPT
                        !.v = SelectSeq(@, LAMBDA x : x # g),
                        !.leaf[w] = Tail(@),
                        !.scheduled = Append(@, [g |-> g, w |-> w,
                                                 failed |-> pipe.failed]),
                        !.results = (g :> r) @@ @,
                        !.workers[w] = [pc |-> "send", g |-> g, handle |-> 0,
                                        names |-> <<>>, out |-> r,
                                        seen |-> EmptyMap]]
    /\ UNCHANGED <<lm, last, pre, hist, gt, batch, res, todo, parse, oracle, rank>>

\* the channel has room for one more message
has_room(p) == p.channel_size = 0 \/ Len(p.chan) < p.channel_size

\* faulty variant: a result that finds the channel full is dropped
Send_lossy(w) ==
    /\ pipe.pc = "handle_graphs"
    /\ pipe.workers[w].pc = "send"
    /\ pipe.workers[w].out # <<>>
    /\ pipe.sink = "running"
    /\ pipe' = [pipe EXCEPT
                    !.chan = IF has_room(pipe)
                             THEN Append(@, Head(pipe.workers[w].out)) ELSE @,
                    !.produced = @ \cup {Head(pipe.workers[w].out)},
                    !.workers[w].out = Tail(@)]
    /\ UNCHANGED <<lm, last, pre, hist, gt, batch, res, todo, parse, oracle, rank>>

\* t.send(..) of one result while the receiver is there: the send waits
\* while the channel of sync_channel(channel_size) is full
Send(w) ==
    /\ pipe.pc = "handle_graphs"
    /\ pipe.workers[w].pc = "send"
    /\ pipe.workers[w].out # <<>>
    /\ pipe.sink = "running"
    /\ has_room(pipe)
    /\ pipe' = [pipe EXCEPT
                    !.chan = Append(@, Head(pipe.workers[w].out)),
                    !.produced = @ \cup {Head(pipe.workers[w].out)},
                    !.workers[w].out = Tail(@)]
    /\ UNCHANGED <<lm, last, pre, hist, gt, batch, res, todo, parse, oracle, rank>>

\* t.send(..).unwrap() after the receiver is gone: send gives Err and
\* unwrap panics.  The panic ends handle_graph for this graph, with the
\* results it had left, and ends the list the thread goes through, with
\* the graphs it had left: they are never handled.  The pool keeps the
\* panic until every list is over and the thread is free for another list.
SendPanic(w) ==
    /\ pipe.pc = "handle_graphs"
    /\ pipe.workers[w].pc = "send"
    /\ pipe.workers[w].out # <<>>
    /\ pipe.sink # "running"
    /\ pipe' = [pipe EXCEPT
                    !.failures = Append(@, [kind |-> "Send",
                                            g |-> pipe.workers[w].g]),
                    !.failed = @ \cup {pipe.workers[w].g},
                    !.leaf[w] = <<>>,
                    !.workers[w].pc = "idle"]
    /\ UNCHANGED <<lm, last, pre, hist, gt, batch, res, todo, parse, oracle, rank>>

\* the loop over r is over and handle_graph returns: the thread goes on
\* with its list
Finish(w) ==
    /\ pipe.pc = "handle_graphs"
    /\ pipe.workers[w].pc = "send"
    /\ pipe.workers[w].out = <<>>
    /\ pipe' = [pipe EXCEPT !.done = @ \cup {pipe.workers[w].g},
                            !.workers[w].pc = "idle"]
    /\ UNCHANGED <<lm, last, pre, hist, gt, batch, res, todo, parse, oracle, rank>>

\* handle_graphs(..) is over when every list is over: every graph was
\* handled but those a panic left in their list.  It returns (), which leaves the ? of main nothing to return, and its
\* sender t is dropped; when handle_graph panicked for some graph the panic
\* goes on in main, which unwinds and drops result_sender as well: main
\* returns nothing and no sender is left.
ReturnFromHandleGraphs ==
    /\ pipe.pc = "handle_graphs"
    /\ \A w \in DOMAIN pipe.workers :
           /\ pipe.workers[w].pc = "idle"
           /\ pipe.leaf[w] = <<>>
           /\ pipe.deques[w] = <<>>
    /\ pipe.injected = <<>>
    /\ pipe' = IF pipe.failures = <<>>
               THEN [pipe EXCEPT !.senders = @ - 1, !.pc = "drop"]
               ELSE [pipe EXCEPT !.senders = 0, !.pc = "panicked"]
    /\ UNCHANGED <<lm, last, pre, hist, gt, batch, res, todo, parse, oracle, rank>>

\* faulty variant: main goes on to the join with result_sender alive
Drop_kept ==
    /\ pipe.pc = "drop"
    /\ pipe' = [pipe EXCEPT !.pc = "join"]
    /\ UNCHANGED <<lm, last, pre, hist, gt, batch, res, todo, parse, oracle, rank>>

\* drop(result_sender)
Drop ==
    /\ pipe.pc = "drop"
    /\ pipe' = [pipe EXCEPT !.senders = @ - 1, !.pc = "join"]
    /\ UNCHANGED <<lm, last, pre, hist, gt, batch, res, todo, parse, oracle, rank>>

\* for t in receiver.iter(): one message is taken and written
Receive ==
    /\ pipe.sink = "running"
    /\ pipe.chan # <<>>
    /\ pipe' = [pipe EXCEPT !.received = Append(@, Head(pipe.chan)),
                            !.chan = Tail(@)]
    /\ UNCHANGED <<lm, last, pre, hist, gt, batch, res, todo, parse, oracle, rank>>

\* the sink thread ends early, by an error it returns or by a panic; the
\* receiver is dropped with the messages it holds
SinkFail(outcome) ==
    /\ pipe.sink = "running"
    /\ pipe.pc \in {"read", "handle_graphs", "drop", "join"}
    /\ pipe' = [pipe EXCEPT !.sink = outcome, !.chan = <<>>]
    /\ UNCHANGED <<lm, last, pre, hist, gt, batch, res, todo, parse, oracle, rank>>

\* receiver.iter() ends: every sender is dropped and the channel is empty
SinkEnd ==
    /\ pipe.sink = "running"
    /\ pipe.senders = 0
    /\ pipe.chan = <<>>
    /\ pipe' = [pipe EXCEPT !.sink = "done"]
    /\ UNCHANGED <<lm, last, pre, hist, gt, batch, res, todo, parse, oracle, rank>>

\* faulty variant: the panic of the thread is taken as its normal end
whandle_join_swallowed(sink) ==
    CASE sink = "Io" -> [kind |-> "Io", g |-> 0]
      [] OTHER -> NoError

\* the result of whandle.join().map_err(|x| TransProofError::Thread(x))??
whandle_join(sink) ==
    CASE sink = "panicked" -> [kind |-> "Thread", g |-> 0]
      [] sink = "Io" -> [kind |-> "Io", g |-> 0]
      [] OTHER -> NoError

\* whandle.join() and the return of main
Join ==
    /\ pipe.pc = "join"
    /\ pipe.sink # "running"
    /\ pipe' = [pipe EXCEPT !.result = whandle_join(pipe.sink),
                            !.joined = TRUE,
                            !.pc = "returned"]
    /\ UNCHANGED <<lm, last, pre, hist, gt, batch, res, todo, parse, oracle, rank>>

DoProbe ==
    \E arg_program \in ProgramNames, flag_transfos \in BOOLEAN, a \in Arguments :
        Probe(arg_program, flag_transfos, a)

DoSpawn ==
    \E channel_size \in 0..MaxChannel, num_threads \in 1..MaxWorkers,
       outcome \in {"ok", "ThreadPool", "Io"} :
        Spawn(channel_size, num_threads, outcome)

DoReadInput ==
    \E graphs \in 0..MaxGraphs, outcome \in {"ok", "Io", "panicked"} :
        ReadInput(graphs, outcome)

DoSplit ==
    \E w \in DOMAIN pipe.workers, from \in {0} \cup DOMAIN pipe.workers,
       m \in 1..MaxGraphs :
        Split(w, from, m)

DoHandleGraph ==
    \E w \in DOMAIN pipe.workers, g \in Range(pipe.v), n \in ResultCounts :
        \E kept \in SUBSET (1..n) : HandleGraph(w, g, n, kept)

DoSend == \E w \in DOMAIN pipe.workers : Send(w)

DoSendPanic == \E w \in DOMAIN pipe.workers : SendPanic(w)

DoFinish == \E w \in DOMAIN pipe.workers : Finish(w)

DoSinkFail == \E outcome \in {"Io", "panicked"} : SinkFail(outcome)

NextPipe ==
    \/ DoProbe
    \/ DoSpawn
    \/ DoReadInput
    \/ DoSplit
    \/ DoHandleGraph
    \/ DoSend
    \/ DoSendPanic
    \/ DoFinish
    \/ ReturnFromHandleGraphs
    \/ Drop
    \/ Receive
    \/ DoSinkFail
    \/ SinkEnd
    \/ Join

SpecPipe == InitPipe /\ [][NextPipe]_vars

\* the results of the graph of rank g that were sent
ProducedOf(g) == {m \in pipe.produced : m[1] = g}

\* C24: a channel of size channel_size >= 1 never holds more than
\* channel_size messages; while the sink thread runs every result sent is in
\* the channel or received, once; a result that waits for room stays with its
\* worker, so that a graph that is done has had each of its results sent;
\* and when main returns Ok every graph of the input is done and the sink
\* has received exactly the results produced.
C24_Backpressure ==
    /\ pipe.channel_size > 0 => Len(pipe.chan) <= pipe.channel_size
    /\ pipe.sink \in {"running", "done"} =>
           /\ Range(pipe.chan) \cup Range(pipe.received) = pipe.produced
           /\ Len(pipe.chan) + Len(pipe.received) = Cardinality(pipe.produced)
    /\ \A w \in DOMAIN pipe.workers :
           pipe.workers[w].pc = "send" =>
               /\ ProducedOf(pipe.workers[w].g) \cup Range(pipe.workers[w].out)
                      = Range(pipe.results[pipe.workers[w].g])
               /\ ProducedOf(pipe.workers[w].g) \cap Range(pipe.workers[w].out) = {}
    /\ \A g \in pipe.done : ProducedOf(g) = Range(pipe.results[g])
    /\ (pipe.pc = "returned" /\ pipe.result = NoError) =>
           /\ pipe.done = 1..pipe.input
           /\ pipe.v = <<>>
           /\ Range(pipe.received) = pipe.produced
           /\ Len(pipe.received) = Cardinality(pipe.produced)
           /\ pipe.produced = UNION {Range(pipe.results[g]) : g \in pipe.done}

\* the channel of size 1 is full, the sink thread has received a message
\* before, and each of two workers holds a result it cannot send yet
C24_Witness ==
    /\ pipe.channel_size = 1
    /\ pipe.num_threads = 2
    /\ pipe.sink = "running"
    /\ Len(pipe.chan) = 1
    /\ pipe.received # <<>>
    /\ \A w \in DOMAIN pipe.workers :
           pipe.workers[w].pc = "send" /\ pipe.workers[w].out # <<>>

\* the graphs that were taken by a thread of the pool
Scheduled == {pipe.scheduled[i].g : i \in DOMAIN pipe.scheduled}

\* C26: once handle_graphs is over after a worker failed, main has returned
\* the error of the graph that failed first; no graph is taken by a worker
\* once a graph has failed; every graph that was taken has run to its end
\* or to its failure when handle_graphs is over; and no graph is taken
\* twice.
C26_ErrorPropagation ==
    /\ (pipe.failures # <<>> /\ pipe.pc # "handle_graphs") =>
           /\ pipe.pc = "returned"
           /\ pipe.result = pipe.failures[1]
    /\ \A i \in DOMAIN pipe.scheduled : pipe.scheduled[i].failed = {}
    /\ \A i, j \in DOMAIN pipe.scheduled :
           pipe.scheduled[i].g = pipe.scheduled[j].g => i = j
    /\ pipe.done \cap pipe.failed = {}
    /\ pipe.pc \in {"drop", "join"} \/ pipe.joined
           \/ (pipe.pc = "panicked" /\ pipe.scheduled # <<>>) =>
           Scheduled = pipe.done \cup pipe.failed

\* C27: when main has joined the sink thread, a panic of the thread is
\* returned as TransProofError::Thread, an error returned by the thread is
\* returned as it is, and Ok is returned only when the thread ended
\* normally; a run whose sink thread panicked never returns Ok, and main
\* returns Ok from the join only.
C27_SinkPanic ==
    /\ pipe.joined =>
           /\ pipe.pc = "returned"
           /\ pipe.sink = "panicked" => pipe.result = [kind |-> "Thread", g |-> 0]
           /\ pipe.sink = "Io" => pipe.result = [kind |-> "Io", g |-> 0]
           /\ pipe.result = NoError <=> pipe.sink = "done"
    /\ (pipe.pc = "returned" /\ pipe.sink = "panicked") => pipe.result # NoError
    /\ (pipe.pc = "returned" /\ pipe.result = NoError) => pipe.joined

\* the sink thread panicked after it had received a message, main joined it
\* and returned the Thread error
C27_Witness ==
    /\ pipe.joined
    /\ pipe.sink = "panicked"
    /\ pipe.received # <<>>
    /\ pipe.result.kind = "Thread"

\* ---------------------------------------------------------------------------
\* The program instances of the worker pool
\* ---------------------------------------------------------------------------

\* the state at the entry of main, with the program instances that exist
HandlesStart ==
    [pc |-> "start", transfos |-> <<>>, v |-> <<>>, workers |-> <<>>,
     handles |-> EmptyMap, next_handle |-> 1, freed |-> {}, program |-> "",
     printed |-> <<>>, code |-> 0]

InitHandles ==
    /\ lm = LabelMapDefault
    /\ last = NoCall
    /\ pre = [gt |-> GtIdle, res |-> <<>>]
    /\ hist = HistDefault
    /\ gt = GtIdle
    /\ batch = <<>>
    /\ res = <<>>
    /\ todo = {}
    /\ parse = <<>>
    /\ oracle = <<>>
    /\ pipe = HandlesStart
    /\ rank = <<>>

\* handle_graphs is entered with the graphs parsed and the pool built
StartPool(num_threads, graphs) ==
    /\ pipe.pc = "channel"
    /\ graphs > 0
    /\ pipe' = [pipe EXCEPT !.workers = [w \in 1..num_threads |-> WorkerStart],
                            !.v = [g \in 1..graphs |-> g],
                            !.pc = "handle_graphs"]
    /\ UNCHANGED <<lm, last, pre, hist, gt, batch, res, todo, parse, oracle, rank>>

\* faulty variant: the pool has one program instance, which every worker uses
TakeGraph_shared(w) ==
    /\ pipe.pc = "handle_graphs"
    /\ pipe.workers[w].pc = "idle"
    /\ pipe.v # <<>>
    /\ LET fresh == DOMAIN pipe.handles = {}
           h == IF fresh THEN pipe.next_handle
                ELSE CHOOSE x \in DOMAIN pipe.handles : TRUE
       IN  pipe' = [pipe EXCEPT
                        !.v = Tail(@),
                        !.next_handle = IF fresh THEN @ + 1 ELSE @,
                        !.handles = IF fresh
                                    THEN (h :> create_program_instance(
                                                   pipe.program)) @@ @
                                    ELSE @,
                        !.workers[w] = [pc |-> "encode", g |-> Head(pipe.v),
                                        handle |-> h, names |-> pipe.transfos,
                                        out |-> <<>>, seen |-> EmptyMap]]
    /\ UNCHANGED <<lm, last, pre, hist, gt, batch, res, todo, parse, oracle, rank>>

\* a worker takes the next graph; it makes its program instance when it has
\* none
TakeGraph(w) ==
    /\ pipe.pc = "handle_graphs"
    /\ pipe.workers[w].pc = "idle"
    /\ pipe.v # <<>>
    /\ LET fresh == pipe.workers[w].handle = 0
           h == IF fresh THEN pipe.next_handle ELSE pipe.workers[w].handle
       IN  pipe' = [pipe EXCEPT
                        !.v = Tail(@),
                        !.next_handle = IF fresh THEN @ + 1 ELSE @,
                        !.handles = IF fresh
                                    THEN (h :> create_program_instance(
                                                   pipe.program)) @@ @
                                    ELSE @,
                        !.workers[w] = [pc |-> "encode", g |-> Head(pipe.v),
                                        handle |-> h, names |-> pipe.transfos,
                                        out |-> <<>>, seen |-> EmptyMap]]
    /\ UNCHANGED <<lm, last, pre, hist, gt, batch, res, todo, parse, oracle, rank>>

\* generate_operations up to the run: the graph is written to the program
\* instance of the worker
Encode(w) ==
    /\ pipe.pc = "handle_graphs"
    /\ pipe.workers[w].pc = "encode"
    /\ LET h == pipe.workers[w].handle
       IN  pipe' = [pipe EXCEPT
                        !.handles[h] =
                            encode_input_graph(@, InputGraph(pipe.workers[w].g)),
                        !.workers[w].pc = "evaluate"]
    /\ UNCHANGED <<lm, last, pre, hist, gt, batch, res, todo, parse, oracle, rank>>

\* generate_operations from the run on: the program is run on the facts its
\* instance holds, the operations are decoded and the instance is purged
Evaluate(w) ==
    /\ pipe.pc = "handle_graphs"
    /\ pipe.workers[w].pc = "evaluate"
    /\ LET h == pipe.workers[w].handle
           g == pipe.workers[w].g
           ran == runProgram(pipe.handles[h])
           operations == decode(ran, Head(pipe.workers[w].names), EmptyMap, 1)
           k == Len(pipe.workers[w].out)
       IN  pipe' = [pipe EXCEPT
                        !.handles[h] = purgeProgram(ran),
                        !.workers[w].seen = pipe.handles[h].inputs,
                        !.workers[w].out =
                            @ \o [i \in 1..Cardinality(DOMAIN operations) |->
                                      <<g, k + i>>],
                        !.workers[w].names = Tail(@),
                        !.workers[w].pc =
                            IF Tail(pipe.workers[w].names) # <<>> THEN "encode"
                            ELSE "idle"]
    /\ UNCHANGED <<lm, last, pre, hist, gt, batch, res, todo, parse, oracle, rank>>

\* handle_graphs returns: the workers end and their program instances go
EndPool ==
    /\ pipe.pc = "handle_graphs"
    /\ pipe.v = <<>>
    /\ \A w \in DOMAIN pipe.workers : pipe.workers[w].pc = "idle"
    /\ pipe' = [pipe EXCEPT !.freed = @ \cup DOMAIN pipe.handles,
                            !.handles = EmptyMap,
                            !.pc = "drop"]
    /\ UNCHANGED <<lm, last, pre, hist, gt, batch, res, todo, parse, oracle, rank>>

DoStartPool ==
    \E num_threads \in 1..MaxWorkers, graphs \in 1..MaxGraphs :
        StartPool(num_threads, graphs)

DoTakeGraph == \E w \in DOMAIN pipe.workers : TakeGraph(w)

DoEncode == \E w \in DOMAIN pipe.workers : Encode(w)

DoEvaluate == \E w \in DOMAIN pipe.workers : Evaluate(w)

NextHandles ==
    \/ DoProbe
    \/ DoStartPool
    \/ DoTakeGraph
    \/ DoEncode
    \/ DoEvaluate
    \/ EndPool

SpecHandles == InitHandles /\ [][NextHandles]_vars

\* C30: no two workers hold the same program instance, and none holds the
\* instance main made to look the transformations up, which is freed before
\* the pool starts; the instance of a worker holds no fact between two
\* graphs, and the facts a run sees are exactly those of the graph of the
\* worker that makes the run.
C30_HandleIsolation ==
    /\ \A w1, w2 \in DOMAIN pipe.workers :
           (w1 # w2 /\ pipe.workers[w1].handle # 0) =>
               pipe.workers[w1].handle # pipe.workers[w2].handle
    /\ \A w \in DOMAIN pipe.workers :
           /\ pipe.workers[w].handle # 0 =>
                  /\ pipe.workers[w].handle \notin pipe.freed \/ pipe.pc = "drop"
                  /\ pipe.workers[w].handle \in DOMAIN pipe.handles \/ pipe.pc = "drop"
           /\ pipe.workers[w].pc = "evaluate" =>
                  pipe.handles[pipe.workers[w].handle].inputs
                      = Encoding(InputGraph(pipe.workers[w].g), {})
           /\ pipe.workers[w].pc \in {"idle", "encode"} /\ pipe.workers[w].handle # 0
                  /\ pipe.pc = "handle_graphs" =>
                  pipe.handles[pipe.workers[w].handle]
                      = create_program_instance(pipe.program)
           /\ pipe.workers[w].seen # EmptyMap =>
                  pipe.workers[w].seen = Encoding(InputGraph(pipe.workers[w].g), {})
    /\ pipe.pc = "handle_graphs" =>
           /\ 1 \in pipe.freed
           /\ DOMAIN pipe.handles \cap pipe.freed = {}

\* two workers are on different graphs at once, each about to run the
\* program on its own instance, and one of them has made a run before
C30_Witness ==
    /\ pipe.pc = "handle_graphs"
    /\ Len(pipe.workers) = 2
    /\ pipe.workers[1].pc = "evaluate"
    /\ pipe.workers[2].pc = "evaluate"
    /\ pipe.workers[1].g # pipe.workers[2].g
    /\ pipe.workers[1].seen # EmptyMap
    /\ pipe.workers[1].handle # pipe.workers[2].handle

\* ---------------------------------------------------------------------------
\* The ranker: the K best candidates against a target
\* ---------------------------------------------------------------------------

\* the largest bound K of the ranker
MaxK == 2

\* the number of distinct candidate keys
MaxKeys == 4

\* the largest number of insertions
MaxInsertions == 4

\* the score of the candidate of key k, in units larger than the epsilon of
\* the comparison: the score is that of the graph the key stands for, and
\* two keys may have one score
ScoreOf(k) == k \div 2

\* a candidate: its score and its key
SimGraph(k) == [score |-> ScoreOf(k), key |-> k]

\* the order of the candidates: a is before b when its score is higher, or
\* when the scores are equal and its key is lower
Before(a, b) ==
    \/ a.score > b.score
    \/ a.score = b.score /\ a.key < b.key

\* faulty variant: the candidate that is first in the order
best(heap) == CHOOSE c \in heap : \A d \in heap : d = c \/ Before(c, d)

\* the candidate of the heap that is last in the order
worst(heap) == CHOOSE c \in heap : \A d \in heap : d = c \/ Before(d, c)

\* no insertion yet
NoInsertion == [candidate |-> SimGraph(0), outcome |-> "none", dedup |-> {},
                discarded |-> {}, evicted |-> {}]

\* faulty variant: the key of the evicted candidate stays in the dedup set
rank_insert_key_kept(r, c) ==
    IF c.key \in r.dedup
    THEN [r EXCEPT !.n = @ + 1,
                   !.last = [candidate |-> c, outcome |-> "duplicate",
                             dedup |-> r.dedup, discarded |-> r.discarded,
                             evicted |-> {}]]
    ELSE LET heap == r.heap \cup {c}
             dedup == r.dedup \cup {c.key}
             evicted == IF Cardinality(heap) > r.k THEN {worst(heap)} ELSE {}
         IN  [r EXCEPT !.n = @ + 1,
                       !.heap = heap \ evicted,
                       !.dedup = dedup,
                       !.discarded = @ \cup evicted,
                       !.last = [candidate |-> c, outcome |-> "inserted",
                                 dedup |-> r.dedup, discarded |-> r.discarded,
                                 evicted |-> evicted]]

\* one insertion: a candidate whose key is in the dedup set is skipped;
\* otherwise it is pushed with its key, and when the heap holds more than K
\* candidates the worst is evicted and its key removed from the dedup set
rank_insert(r, c) ==
    IF c.key \in r.dedup
    THEN [r EXCEPT !.n = @ + 1,
                   !.last = [candidate |-> c, outcome |-> "duplicate",
                             dedup |-> r.dedup, discarded |-> r.discarded,
                             evicted |-> {}]]
    ELSE LET heap == r.heap \cup {c}
             dedup == r.dedup \cup {c.key}
             evicted == IF Cardinality(heap) > r.k THEN {worst(heap)} ELSE {}
         IN  [r EXCEPT !.n = @ + 1,
                       !.heap = heap \ evicted,
                       !.dedup = dedup \ {e.key : e \in evicted},
                       !.discarded = @ \cup evicted,
                       !.last = [candidate |-> c, outcome |-> "inserted",
                                 dedup |-> r.dedup, discarded |-> r.discarded,
                                 evicted |-> evicted]]

InitRank ==
    /\ lm = LabelMapDefault
    /\ last = NoCall
    /\ pre = [gt |-> GtIdle, res |-> <<>>]
    /\ hist = HistDefault
    /\ gt = GtIdle
    /\ batch = <<>>
    /\ res = <<>>
    /\ todo = {}
    /\ parse = <<>>
    /\ oracle = <<>>
    /\ pipe = <<>>
    /\ \E k \in 1..MaxK :
           rank = [k |-> k, heap |-> {}, dedup |-> {}, discarded |-> {},
                   n |-> 0, last |-> NoInsertion]

\* a candidate is ranked
RankCandidate(key) ==
    /\ rank.n < MaxInsertions
    /\ rank' = rank_insert(rank, SimGraph(key))
    /\ UNCHANGED <<lm, last, pre, hist, gt, batch, res, todo, parse, oracle, pipe>>

NextRank == \E key \in 1..MaxKeys : RankCandidate(key)

SpecRank == InitRank /\ [][NextRank]_vars

\* C28: after every insertion the ranker retains at most K candidates, and
\* every retained candidate is before every discarded one in the order: its
\* score is higher, or the scores are equal and its key is lower; the
\* candidate evicted by an insertion is the last in the order of the
\* candidates that were retained and the one inserted.
C28_TopK ==
    /\ Cardinality(rank.heap) <= rank.k
    /\ \A c \in rank.heap : \A d \in rank.discarded :
           /\ c.score >= d.score
           /\ Before(c, d)
    /\ \A e \in rank.last.evicted :
           /\ Cardinality(rank.heap) = rank.k
           /\ \A c \in rank.heap : Before(c, e)
    /\ (rank.last.outcome = "inserted" /\ rank.last.evicted = {}) =>
           rank.last.candidate \in rank.heap

\* the heap is full, it retains a candidate whose score a discarded
\* candidate has too, and the last insertion evicted a candidate
C28_Witness ==
    /\ rank.n >= 3
    /\ Cardinality(rank.heap) = rank.k
    /\ rank.last.evicted # {}
    /\ \E c \in rank.heap : \E d \in rank.discarded : c.score = d.score

\* C29: the dedup set holds exactly the keys of the candidates retained, one
\* candidate for each key; an insertion is skipped exactly when the key of
\* its candidate was in the dedup set, so that a candidate retained is not
\* inserted twice and a candidate evicted before is inserted again.
C29_Dedup ==
    /\ rank.dedup = {c.key : c \in rank.heap}
    /\ Cardinality(rank.dedup) = Cardinality(rank.heap)
    /\ rank.last.outcome = "duplicate" <=>
           rank.last.candidate.key \in rank.last.dedup
    /\ rank.last.outcome = "duplicate" =>
           /\ rank.dedup = rank.last.dedup
           /\ rank.discarded = rank.last.discarded
    /\ (rank.last.outcome # "none"
            /\ rank.last.candidate \in rank.last.discarded
            /\ rank.last.candidate.key \notin rank.last.dedup) =>
           /\ rank.last.outcome = "inserted"
           /\ rank.last.candidate \in rank.heap \cup rank.last.evicted

\* a candidate that was evicted before passed the dedup set again: it was
\* pushed, and evicted as the worst, while the keys retained stayed in the set
C29_Witness ==
    /\ rank.last.outcome = "inserted"
    /\ rank.last.candidate \in rank.last.discarded
    /\ rank.last.candidate \in rank.last.evicted
    /\ Cardinality(rank.dedup) = rank.k

(***************************************************************************)
(* Property and rename operations: what they change and what they leave.   *)
(***************************************************************************)
VertexPropertyKinds == {"AddVertexProperty", "RemoveVertexProperty", "RenameVertex"}

EdgePropertyKinds == {"AddEdgeProperty", "RemoveEdgeProperty", "RenameEdge"}


\* the property map m0 with the key of op set (added) or absent (removed)
MapAfter(op, m, m0) ==
    /\ op.kind \in {"AddVertexProperty", "AddEdgeProperty"} =>
          /\ DOMAIN m = DOMAIN m0 \cup {op.name}
          /\ m[op.name] = op.value
          /\ \A k \in DOMAIN m0 \ {op.name} : m[k] = m0[k]
    /\ op.kind \in {"RemoveVertexProperty", "RemoveEdgeProperty"} =>
          /\ DOMAIN m = DOMAIN m0 \ {op.name}
          /\ \A k \in DOMAIN m : m[k] = m0[k]
          /\ (op.name \notin DOMAIN m0) => m = m0
    /\ op.kind \in {"RenameVertex", "RenameEdge"} => m = m0

NameAfter(op, n, n0) ==
    IF op.kind \in {"RenameVertex", "RenameEdge"} THEN n = op.name ELSE n = n0

\* same edges between the same endpoints
SameEndpoints(g, g0) ==
    /\ DOMAIN g.edges = DOMAIN g0.edges
    /\ \A e \in DOMAIN g.edges :
          /\ g.edges[e].source = g0.edges[e].source
          /\ g.edges[e].target = g0.edges[e].target

\* C32: a property or rename operation on an existing element changes the
\* property map (Add/Remove*Property) or the name (Rename*) of that element
\* and nothing else: the vertex set, the edge set, the endpoints, both
\* LabelMaps and the Properties of every other element stay as they were;
\* Add*Property overwrites the value of a key the element has,
\* Remove*Property of a key the element lacks changes nothing; on an element
\* that does not exist each of them panics.
C32_PropertyFrame ==
    /\ (Applied /\ LastOp.kind \in VertexPropertyKinds) =>
          LET g  == gt.result.graph
              g0 == pre.gt.result.graph
              v  == PreNode(LastOp.id)
          IN  IF ~contains_node(g0, v)
              THEN gt.status = "panicked"
              ELSE /\ gt.status = "running"
                   /\ DOMAIN g.nodes = DOMAIN g0.nodes
                   /\ SameEndpoints(g, g0)
                   /\ \A e \in DOMAIN g.edges : g.edges[e].weight = g0.edges[e].weight
                   /\ \A u \in DOMAIN g.nodes \ {v} : g.nodes[u] = g0.nodes[u]
                   /\ MapAfter(LastOp, g.nodes[v].map, g0.nodes[v].map)
                   /\ NameAfter(LastOp, g.nodes[v].name, g0.nodes[v].name)
                   /\ gt.result.vertex_label = pre.gt.result.vertex_label
                   /\ gt.result.edge_label = pre.gt.result.edge_label
    /\ (Applied /\ LastOp.kind \in EdgePropertyKinds) =>
          LET g  == gt.result.graph
              g0 == pre.gt.result.graph
              e  == PreEdge(LastOp.id)
          IN  IF edge_weight(g0, e) = {}
              THEN gt.status = "panicked"
              ELSE /\ gt.status = "running"
                   /\ DOMAIN g.nodes = DOMAIN g0.nodes
                   /\ SameEndpoints(g, g0)
                   /\ \A u \in DOMAIN g.nodes : g.nodes[u] = g0.nodes[u]
                   /\ \A f \in DOMAIN g.edges \ {e} :
                          g.edges[f].weight = g0.edges[f].weight
                   /\ MapAfter(LastOp, g.edges[e].weight.map, g0.edges[e].weight.map)
                   /\ NameAfter(LastOp, g.edges[e].weight.name, g0.edges[e].weight.name)
                   /\ gt.result.vertex_label = pre.gt.result.vertex_label
                   /\ gt.result.edge_label = pre.gt.result.edge_label

\* the value of key k of vertex x was overwritten, then a key that edge p
\* never had was removed from it
C32_Witness ==
    /\ batch = <<AddVertexProperty(0, "k", "2"), RemoveEdgeProperty(0, "k")>>
    /\ gt.status = "running"
    /\ gt.init.graph.nodes[0].map = Insert(EmptyMap, "k", "1")
    /\ gt.result.graph.nodes[0].map = Insert(EmptyMap, "k", "2")
    /\ "k" \notin DOMAIN gt.init.graph.edges[0].weight.map
    /\ gt.result.graph.edges = gt.init.graph.edges

(***************************************************************************)
(* Label mappings and the elements of the graph.                           *)
(***************************************************************************)
\* the elements that have at least one label in the LabelMap m
Labelled(m) == {u \in DOMAIN m.labels_map : element_labels(m, u) # {}}

\* C33: after the operations of a batch were applied without panic, every
\* element with at least one label in result.vertex_label is a vertex of
\* result.graph and every element with at least one label in
\* result.edge_label is an edge of result.graph; an edge made by AddEdge
\* starts without labels.
C33_LabelsOfLiveElements ==
    gt.status = "running" =>
        /\ \A u \in Labelled(gt.result.vertex_label) :
               contains_node(gt.result.graph, u)
        /\ \A e \in Labelled(gt.result.edge_label) :
               edge_weight(gt.result.graph, e) # {}
        /\ (Applied /\ LastOp.kind = "AddEdge") =>
               \A e \in DOMAIN gt.result.graph.edges \ DOMAIN pre.gt.result.graph.edges :
                   element_labels(gt.result.edge_label, e) = {}

(***************************************************************************)
(* What generate_key depends on.                                           *)
(***************************************************************************)
LabelKinds ==
    {"CreateVertexLabel", "AddVertexLabel", "RemoveVertexLabel",
     "CreateEdgeLabel", "AddEdgeLabel", "RemoveEdgeLabel"}

PropertyKinds ==
    {"AddVertexProperty", "RemoveVertexProperty",
     "AddEdgeProperty", "RemoveEdgeProperty"}

\* the names of the edges that leave vertex v
OutgoingNames(p, v) ==
    {p.graph.edges[e].weight.name :
        e \in {f \in DOMAIN p.graph.edges : p.graph.edges[f].source = v}}

\* name, then ':' and the sorted outgoing edge names when there are any, ';'
KeySegment(p, v) ==
    LET out == OutgoingNames(p, v)
    IN  p.graph.nodes[v].name
            \o (IF out = {} THEN "" ELSE ":" \o join(sorted(out), ","))
            \o ";"

\* the segments of the vertices V, the least name first
RECURSIVE KeyOf(_, _)
KeyOf(p, V) ==
    IF V = {}
    THEN ""
    ELSE LET v == CHOOSE u \in V :
                      \A w \in V : Rank(p.graph.nodes[u].name)
                                       <= Rank(p.graph.nodes[w].name)
         IN  KeySegment(p, v) \o KeyOf(p, V \ {v})

\* C39: for a graph with unique names generate_key is the concatenation,
\* over the vertices in ascending name order, of the name, ':' and the
\* comma-joined sorted names of the outgoing edges when there are any, and
\* ';'.  MoveEdgeTarget and every label or property operation leave the key
\* of result as it was; RenameVertex and RenameEdge to another name and
\* MoveEdgeSource to another vertex change it.
C39_KeyDependsOnNames ==
    gt.status = "running" =>
        /\ check_unique_names(gt.result) =>
               generate_key(gt.result) = KeyOf(gt.result, DOMAIN gt.result.graph.nodes)
        /\ (Applied /\ LastOp.kind \in LabelKinds \cup PropertyKinds \cup {"MoveEdgeTarget"}) =>
               generate_key(gt.result) = generate_key(pre.gt.result)
        /\ (/\ Applied
            /\ LastOp.kind = "RenameVertex"
            /\ LastOp.name # pre.gt.result.graph.nodes[PreNode(LastOp.id)].name) =>
               generate_key(gt.result) # generate_key(pre.gt.result)
        /\ (/\ Applied
            /\ LastOp.kind = "RenameEdge"
            /\ LastOp.name # pre.gt.result.graph.edges[PreEdge(LastOp.id)].weight.name) =>
               generate_key(gt.result) # generate_key(pre.gt.result)
        /\ (/\ Applied
            /\ LastOp.kind = "MoveEdgeSource"
            /\ PreNode(LastOp.arg) # pre.gt.result.graph.edges[PreEdge(LastOp.id)].source) =>
               generate_key(gt.result) # generate_key(pre.gt.result)

\* edge p got a label and then another target: the key is the key of init;
\* with another source the key is a different one
C39_Witness ==
    \/ /\ batch = <<AddEdgeLabel(1, 0), MoveEdgeTarget(0, 0)>>
       /\ gt.status = "running"
       /\ gt.result.graph.edges[0].target # gt.init.graph.edges[0].target
       /\ gt.result.edge_label # gt.init.edge_label
       /\ generate_key(gt.result) = "x:p;y:q;"
       /\ generate_key(gt.init) = "x:p;y:q;"
    \/ /\ batch = <<MoveEdgeSource(0, 1)>>
       /\ gt.status = "running"
       /\ generate_key(gt.init) = "x:p;y:q;"
       /\ generate_key(gt.result) = "x;y:p,q;"

(***************************************************************************)
(* Termination of the pipeline.  Some thread that can take a step does:   *)
(* a worker of the pool, the sink thread or main.  The sink thread is not  *)
(* bound to fail.                                                          *)
(***************************************************************************)
PipeProgress ==
    \/ DoSplit
    \/ DoHandleGraph
    \/ DoSend
    \/ DoSendPanic
    \/ DoFinish
    \/ ReturnFromHandleGraphs
    \/ Drop
    \/ Receive
    \/ SinkEnd
    \/ Join

SpecPipeFair == InitPipe /\ [][NextPipe]_vars /\ WF_vars(PipeProgress)

\* C34: once the input is read main comes to its end, for a channel of any
\* size: the workers end, every sender is dropped, the receive loop takes
\* what is in the channel and ends, and the join returns; main ends without
\* the join only by the panic of a send, which a sink thread that keeps
\* receiving does not cause.  A sink thread that ended normally has received
\* every message that was sent, each once, and ended with no sender left;
\* while main waits in the join for a running sink thread, the sink thread
\* can take a message or end; and a sink thread left running by a main that
\* is over has no sender left, so that it ends too.
C34_Termination ==
    /\ [](pipe.sink = "done" =>
              /\ pipe.senders = 0
              /\ pipe.chan = <<>>
              /\ Range(pipe.received) = pipe.produced
              /\ Len(pipe.received) = Cardinality(pipe.produced))
    /\ []((pipe.pc = "join" /\ pipe.sink = "running") =>
              (pipe.chan # <<>> \/ pipe.senders = 0))
    /\ []((pipe.pc = "panicked" /\ pipe.scheduled # <<>>) =>
              pipe.sink \in {"Io", "panicked"})
    /\ (pipe.pc \in {"handle_graphs", "drop", "join"})
           ~> (pipe.pc = "returned" \/ (pipe.pc = "panicked" /\ pipe.failures # <<>>))
    /\ (pipe.pc \in {"returned", "panicked"} /\ pipe.sink = "running")
           ~> (pipe.sink = "done")

\* main returned Ok from the join after the sink thread received the three
\* results sent through a channel of size 1
C34_Witness ==
    /\ pipe.pc = "returned"
    /\ pipe.joined
    /\ pipe.result = NoError
    /\ pipe.sink = "done"
    /\ pipe.channel_size = 1
    /\ pipe.senders = 0
    /\ Len(pipe.received) = 3

(***************************************************************************)
(* The batches of one apply_single_transformation call, from the rows the  *)
(* evaluator holds after a run to the results pushed to res.  The rows of  *)
(* each relation are kept in the order the evaluator hands them out; the   *)
(* batches are visited in the order operations.values() yields them, which *)
(* is any order.  The query relation is T; U is another query relation of  *)
(* the same program.  The source graph is SourceGraph: the call encodes it *)
(* into the input relations of the instance before the program is run.     *)
(***************************************************************************)
MaxRows == 3

QueryRelation == "T"

\* the program declares the relation of every operation kind
RowProgram ==
    [inputs  |-> newInstance.inputs,
     outputs |-> [r \in {get_relation_name(OPERATIONS[i]) : i \in DOMAIN OPERATIONS}
                        \cup {"T", "U"} |-> <<>>]]

\* rows the rules can derive: (relation, tuple); the tuple of an operation
\* relation is the query relation, the batch id and the payload, the tuple
\* of a query relation is a batch id
RowPool ==
    {<<"CreateVertexLabel_", <<"T", 1, 0, "C">>>>,
     <<"CreateVertexLabel_", <<"T", 1, 1, "A">>>>,
     <<"AddVertexLabel_", <<"T", 1, 0, 0>>>>,
     <<"AddVertexLabel_", <<"T", 1, 0, 1>>>>,
     <<"RemoveVertexLabel_", <<"T", 1, 0, 0>>>>,
     <<"RemoveVertexLabel_", <<"T", 2, 0, 0>>>>,
     <<"CreateEdgeLabel_", <<"T", 1, 0, "S">>>>,
     <<"AddEdgeLabel_", <<"T", 1, 1, 0>>>>,
     <<"AddVertex_", <<"T", 1, 5>>>>,
     <<"AddVertex_", <<"T", 1, 6>>>>,
     <<"AddVertex_", <<"U", 1, 5>>>>,
     <<"RenameVertex_", <<"T", 1, 5, "n">>>>,
     <<"RenameVertex_", <<"T", 1, 5, "x">>>>,
     <<"AddEdge_", <<"T", 1, 5, 0, 1>>>>,
     <<"AddEdge_", <<"T", 1, 6, 5, 0>>>>,
     <<"RenameEdge_", <<"T", 1, 5, "p">>>>,
     <<"RemoveVertex_", <<"T", 2, 0>>>>,
     <<"T", <<1>>>>,
     <<"T", <<3>>>>}

RowsStart ==
    [pc |-> "rows", program |-> RowProgram, ran |-> RowProgram,
     derived |-> RowProgram.outputs, relation_name |-> "", produced |-> 0,
     operations |-> EmptyMap, current |-> 0, pending |-> <<>>,
     visited |-> <<>>, results |-> EmptyMap]

InitRows ==
    /\ lm = LabelMapDefault
    /\ last = NoCall
    /\ pre = [gt |-> GtIdle, res |-> <<>>]
    /\ hist = HistDefault
    /\ gt = GtIdle
    /\ batch = <<>>
    /\ res = <<>>
    /\ todo = {}
    /\ parse = <<>>
    /\ oracle = RowsStart
    /\ pipe = <<>>
    /\ rank = <<>>

\* the rules of the program derive one more row of a relation from the
\* facts of the source graph: derived holds, relation by relation, the rows
\* a run on these facts gives
ProduceRow(relation, t) ==
    /\ oracle.pc = "rows"
    /\ oracle.produced < MaxRows
    /\ t \notin Range(oracle.derived[relation])
    /\ oracle' = [oracle EXCEPT !.derived[relation] = Append(@, t),
                                !.produced = @ + 1]
    /\ UNCHANGED <<lm, last, pre, hist, gt, batch, res, todo, parse, pipe, rank>>

\* faulty variant: every id listed in the query relation gets a batch
decode_operations_listed(program, relation_name) ==
    IF ~has_relation(program, relation_name)
    THEN [status |-> "panicked", operations |-> EmptyMap, program |-> program]
    ELSE LET ids == {t[1] : t \in Range(program.outputs[relation_name])}
         IN  [status |-> "returned",
              operations |-> decode(program, relation_name,
                                    [id \in ids |-> <<>>], 1),
              program |-> purgeProgram(program)]

\* generate_operations after the run: expect panics when the program has no
\* relation of the name asked for; otherwise the ids listed in the query
\* relation are read and left aside, the batches are the keys of the map
\* the operation rows fill, and the program is purged
decode_operations(program, relation_name) ==
    IF ~has_relation(program, relation_name)
    THEN [status |-> "panicked", operations |-> EmptyMap, program |-> program]
    ELSE [status |-> "returned",
          operations |-> decode(program, relation_name, EmptyMap, 1),
          program |-> purgeProgram(program)]

\* the relation names apply_single_transformation is called with: the query
\* relation and a name that is no relation of the program
RowRelNames == {QueryRelation, "Missing"}

\* runProgram on an instance whose rules derive the rows of derived: each
\* output relation gets the rows derived for it
run_rows(program, derived) ==
    [program EXCEPT !.outputs =
        [r \in DOMAIN @ |-> merge_rows(@[r], derived[r])]]

\* let mut res = vec![]; let operations = generate_operations(program,
\* rel_name, g, target_graph), with no target: the source graph is encoded
\* into the input relations, the program is run, and the rows are decoded
\* and the relations purged unless expect panics, which leaves the facts
\* and the rows where they are.  ran keeps the instance as the run left it
\* and relation_name the name the call was made with.
DecodeRows(relation_name) ==
    /\ oracle.pc = "rows"
    /\ LET encoded == encode_input_graph(oracle.program, SourceGraph)
           ran == run_rows(encoded, oracle.derived)
           r == decode_operations(ran, relation_name)
       IN  /\ oracle' = [oracle EXCEPT
                            !.pc = IF r.status = "panicked" THEN "panicked"
                                   ELSE IF DOMAIN r.operations = {}
                                        THEN "returned" ELSE "batches",
                            !.operations = r.operations,
                            !.relation_name = relation_name,
                            !.ran = ran,
                            !.program = r.program]
           /\ todo' = DOMAIN r.operations
    /\ res' = <<>>
    /\ UNCHANGED <<lm, last, pre, hist, gt, batch, parse, pipe, rank>>

\* faulty variant: the scratch maps are those the batch visited before left
VisitBatch_maps_kept(id) ==
    /\ oracle.pc = "batches"
    /\ gt.status = "idle"
    /\ id \in todo
    /\ todo' = todo \ {id}
    /\ gt' = IF pre.gt.status = "running"
             THEN [GraphTransformationFrom(SourceGraph) EXCEPT
                      !.node_map = pre.gt.node_map,
                      !.edge_map = pre.gt.edge_map,
                      !.node_label_map = pre.gt.node_label_map,
                      !.edge_label_map = pre.gt.edge_label_map]
             ELSE GraphTransformationFrom(SourceGraph)
    /\ batch' = <<>>
    /\ oracle' = [oracle EXCEPT !.current = id,
                                !.pending = oracle.operations[id],
                                !.visited = Append(@, id)]
    /\ UNCHANGED <<lm, last, pre, hist, res, parse, pipe, rank>>

\* for transfo in operations.values(): ng = g.into() and four empty maps
VisitBatch(id) ==
    /\ oracle.pc = "batches"
    /\ gt.status = "idle"
    /\ id \in todo
    /\ todo' = todo \ {id}
    /\ gt' = GraphTransformationFrom(SourceGraph)
    /\ batch' = <<>>
    /\ oracle' = [oracle EXCEPT !.current = id,
                                !.pending = oracle.operations[id],
                                !.visited = Append(@, id)]
    /\ UNCHANGED <<lm, last, pre, hist, res, parse, pipe, rank>>

\* for operation in transfo: operation.apply(..); a panic ends the call
ApplyOperation ==
    /\ oracle.pc = "batches"
    /\ gt.status = "running"
    /\ oracle.pending # <<>>
    /\ LET op == Head(oracle.pending)
           ng == apply(gt, op)
       IN  /\ gt' = ng
           /\ batch' = Append(batch, op)
           /\ oracle' = [oracle EXCEPT
                            !.pending = Tail(@),
                            !.pc = IF ng.status = "running"
                                   THEN "batches" ELSE "panicked"]
    /\ pre' = [gt |-> gt, res |-> res]
    /\ UNCHANGED <<lm, last, hist, res, todo, parse, pipe, rank>>

\* if ng.result.check_unique_names() { res.push(ng) }
CheckBatch ==
    /\ oracle.pc = "batches"
    /\ gt.status = "running"
    /\ oracle.pending = <<>>
    /\ LET kept == check_unique_names(gt.result)
       IN  /\ res' = IF kept THEN Append(res, gt) ELSE res
           /\ oracle' = [oracle EXCEPT
                            !.results = Insert(@, oracle.current,
                                               [gt |-> gt, kept |-> kept]),
                            !.current = 0,
                            !.pc = IF todo = {} THEN "returned" ELSE "batches"]
    /\ gt' = GtIdle
    /\ pre' = [gt |-> gt, res |-> res]
    /\ UNCHANGED <<lm, last, hist, batch, todo, parse, pipe, rank>>

DoProduceRow == \E r \in RowPool : ProduceRow(r[1], r[2])

DoDecodeRows == \E relation_name \in RowRelNames : DecodeRows(relation_name)

DoVisitBatch == \E id \in todo : VisitBatch(id)

NextRows ==
    \/ DoProduceRow
    \/ DoDecodeRows
    \/ DoVisitBatch
    \/ ApplyOperation
    \/ CheckBatch

SpecRows == InitRows /\ [][NextRows]_vars

(***************************************************************************)
(* Batch-local label ids.                                                  *)
(***************************************************************************)
\* the positions of the batch, before the operation applied last, at which
\* a Create*Label of this kind bound the batch-local label id l
Bindings(kind, l) ==
    {i \in 1..(Len(batch) - 1) : batch[i].kind = kind /\ batch[i].id = l}

\* the name the batch-local label id l is bound to: that of the latest
\* Create*Label(l, name)
BoundName(kind, l) ==
    LET latest == CHOOSE i \in Bindings(kind, l) :
                      \A j \in Bindings(kind, l) : j <= i
    IN  batch[latest].name

\* the real id the label operation applied last acts on, in the LabelMap m0
\* it started from
TargetLabel(kind, m0) ==
    IF Bindings(kind, LastOp.arg) # {}
    THEN m0.label_ids[BoundName(kind, LastOp.arg)]
    ELSE LastOp.arg

\* Create*Label(l, name) went from m0 to m and left the scratch map map
CreateBinds(m, m0, map) ==
    /\ get_label_id(m, LastOp.name) # {}
    /\ get_label(m, m.label_ids[LastOp.name]) = {LastOp.name}
    /\ get_label_id(m0, LastOp.name) # {} =>
           get_label_id(m, LastOp.name) = get_label_id(m0, LastOp.name)
    /\ LastOp.id \in DOMAIN map
    /\ map[LastOp.id] = m.label_ids[LastOp.name]

\* Add*Label / Remove*Label on element u, named n, went from m0 to m acting
\* on label t
ActsOn(m, m0, u, n, t, added) ==
    /\ added <=> t \in element_labels(m, u)
    /\ element_labels(m, u) \ {t} = element_labels(m0, u) \ {t}
    /\ gt.operations[Len(gt.operations)] = Format2(LastOp.kind, n, m0.labels[t])

\* C31: after Create*Label(l, name) the name is registered on that side,
\* with the id it had when it was registered before, and l is bound to that
\* id; an Add*Label or Remove*Label of the batch that refers to l acts, from
\* then on, on the label named name, whatever real id l is equal to, and a
\* label id the batch has not bound is taken as a real id.  A batch starts
\* with no binding: what another batch bound is not seen.
C31_LabelBinding ==
    /\ (gt.status = "running" /\ batch = <<>>) =>
           /\ gt.node_label_map = EmptyMap
           /\ gt.edge_label_map = EmptyMap
    /\ (gt.status = "running" /\ Applied) =>
           /\ LastOp.kind = "CreateVertexLabel" =>
                  CreateBinds(gt.result.vertex_label, pre.gt.result.vertex_label,
                              gt.node_label_map)
           /\ LastOp.kind = "CreateEdgeLabel" =>
                  CreateBinds(gt.result.edge_label, pre.gt.result.edge_label,
                              gt.edge_label_map)
           /\ LastOp.kind \in {"AddVertexLabel", "RemoveVertexLabel"} =>
                  ActsOn(gt.result.vertex_label, pre.gt.result.vertex_label,
                         PreNode(LastOp.id),
                         pre.gt.result.graph.nodes[PreNode(LastOp.id)].name,
                         TargetLabel("CreateVertexLabel", pre.gt.result.vertex_label),
                         LastOp.kind = "AddVertexLabel")
           /\ LastOp.kind \in {"AddEdgeLabel", "RemoveEdgeLabel"} =>
                  ActsOn(gt.result.edge_label, pre.gt.result.edge_label,
                         PreEdge(LastOp.id),
                         pre.gt.result.graph.edges[PreEdge(LastOp.id)].weight.name,
                         TargetLabel("CreateEdgeLabel", pre.gt.result.edge_label),
                         LastOp.kind = "AddEdgeLabel")

\* batch 1 bound label id 0 to the new label C and gave C to vertex x; batch
\* 2, visited after it, removed label id 0 from x and x lost A, the label
\* whose real id is 0
C31_Witness ==
    /\ oracle.visited = <<1, 2>>
    /\ oracle.operations[1] = <<CreateVertexLabel(0, "C"), AddVertexLabel(0, 0)>>
    /\ oracle.operations[2] = <<RemoveVertexLabel(0, 0)>>
    /\ 1 \in DOMAIN oracle.results
    /\ SourceGraph.vertex_label.labels[0] = "A"
    /\ LET r == oracle.results[1].gt.result.vertex_label
       IN  element_labels(r, 0) = {0, r.label_ids["C"]}
    /\ batch = <<RemoveVertexLabel(0, 0)>>
    /\ gt.status = "running"
    /\ element_labels(gt.result.vertex_label, 0) = {}
    /\ gt.operations = <<"RemoveVertexLabel(x,A)">>

(***************************************************************************)
(* The order of the operations of a decoded batch.                         *)
(***************************************************************************)
\* the kinds in the order the batches are to follow
KindOrder ==
    <<"AddVertex", "CreateVertexLabel", "AddVertexLabel", "AddVertexProperty",
      "AddEdge", "CreateEdgeLabel", "AddEdgeLabel", "AddEdgeProperty",
      "MoveEdgeTarget", "MoveEdgeSource", "RenameVertex", "RenameEdge",
      "RemoveEdgeProperty", "RemoveEdgeLabel", "RemoveEdge",
      "RemoveVertexProperty", "RemoveVertexLabel", "RemoveVertex">>

KindRank(kind) == CHOOSE i \in 1..Len(KindOrder) : KindOrder[i] = kind

\* the batch-local vertex ids an operation refers to without creating them
UsedVertices(op) ==
    CASE op.kind \in {"AddVertexLabel", "RemoveVertexLabel", "AddVertexProperty",
                      "RemoveVertexProperty", "RenameVertex"} -> {op.id}
      [] op.kind = "AddEdge" -> {op.arg, op.arg2}
      [] op.kind \in {"MoveEdgeTarget", "MoveEdgeSource"} -> {op.arg}
      [] OTHER -> {}

UsedEdges(op) ==
    IF op.kind \in {"AddEdgeLabel", "RemoveEdgeLabel", "AddEdgeProperty",
                    "RemoveEdgeProperty", "RenameEdge", "MoveEdgeTarget",
                    "MoveEdgeSource"}
    THEN {op.id} ELSE {}

UsedVertexLabels(op) ==
    IF op.kind \in {"AddVertexLabel", "RemoveVertexLabel"} THEN {op.arg} ELSE {}

UsedEdgeLabels(op) ==
    IF op.kind \in {"AddEdgeLabel", "RemoveEdgeLabel"} THEN {op.arg} ELSE {}

\* the rows of the relation of a kind that belong to batch id of the query
\* relation, in the order of the relation
BatchRows(kind, id) ==
    SelectSeq(oracle.ran.outputs[get_relation_name(kind)],
              LAMBDA t : t[1] = QueryRelation /\ t[2] = id)

\* the operations of one kind of a batch, in the order of the batch
OfKind(ops, kind) == SelectSeq(ops, LAMBDA op : op.kind = kind)

\* C35: in every decoded batch the operations follow the order of the kinds
\* AddVertex, CreateVertexLabel, AddVertexLabel, AddVertexProperty, AddEdge,
\* CreateEdgeLabel, AddEdgeLabel, AddEdgeProperty, MoveEdgeTarget,
\* MoveEdgeSource, RenameVertex, RenameEdge, RemoveEdgeProperty,
\* RemoveEdgeLabel, RemoveEdge, RemoveVertexProperty, RemoveVertexLabel,
\* RemoveVertex, and the operations of one kind the order of their rows; so
\* the creation of a vertex, an edge or a label comes before every operation
\* that refers to it, and the removal of a vertex or an edge after every
\* other operation that refers to it.
C35_BatchOrder ==
    oracle.pc # "rows" =>
        \A id \in DOMAIN oracle.operations :
            LET ops == oracle.operations[id]
            IN  /\ \A i, j \in 1..Len(ops) :
                       i < j => KindRank(ops[i].kind) <= KindRank(ops[j].kind)
                /\ \A k \in 1..Len(KindOrder) :
                       OfKind(ops, KindOrder[k]) =
                           [n \in 1..Len(BatchRows(KindOrder[k], id)) |->
                               construct(KindOrder[k], BatchRows(KindOrder[k], id)[n])]
                /\ \A i, j \in 1..Len(ops) :
                       /\ (ops[i].kind = "AddVertex"
                               /\ ops[i].id \in UsedVertices(ops[j])) => i < j
                       /\ (ops[i].kind = "AddEdge"
                               /\ ops[i].id \in UsedEdges(ops[j])) => i < j
                       /\ (ops[i].kind = "CreateVertexLabel"
                               /\ ops[i].id \in UsedVertexLabels(ops[j])) => i < j
                       /\ (ops[i].kind = "CreateEdgeLabel"
                               /\ ops[i].id \in UsedEdgeLabels(ops[j])) => i < j
                       /\ (ops[i].kind = "RemoveVertex" /\ i # j
                               /\ ops[i].id \in UsedVertices(ops[j])
                                                    \cup {v \in {ops[j].id} : ops[j].kind = "AddVertex"})
                              => j < i
                       /\ (ops[i].kind = "RemoveEdge" /\ i # j
                               /\ ops[i].id \in UsedEdges(ops[j])
                                                    \cup {e \in {ops[j].id} : ops[j].kind = "AddEdge"})
                              => j < i

\* the row that names vertex 5 came first, then the row of the edge that
\* leaves it, then the row that creates it: the batch creates the vertex,
\* then the edge, then names the vertex
C35_Witness ==
    /\ oracle.pc = "returned"
    /\ oracle.ran.outputs["RenameVertex_"] = << <<"T", 1, 5, "n">> >>
    /\ oracle.ran.outputs["AddEdge_"] = << <<"T", 1, 6, 5, 0>> >>
    /\ oracle.ran.outputs["AddVertex_"] = << <<"T", 1, 5>> >>
    /\ oracle.operations[1] = <<AddVertex(5), AddEdge(6, 5, 0), RenameVertex(5, "n")>>
    /\ oracle.results[1].gt.status = "running"

(***************************************************************************)
(* Independence of the batches of one call.                                *)
(***************************************************************************)
\* C36: every batch starts from a copy of the source graph, an empty log and
\* empty scratch maps, whatever was visited before it; what a batch leaves
\* (result graph, log, scratch maps, init) is what its operations give when
\* they are applied to the source graph on their own, in any visiting order;
\* init is the source graph throughout.
C36_BatchesIndependent ==
    /\ (oracle.pc = "batches" /\ gt.status = "running" /\ batch = <<>>) =>
           gt = GraphTransformationFrom(SourceGraph)
    /\ (oracle.pc # "rows" /\ gt.status = "running") =>
           /\ gt.init = SourceGraph
           /\ gt = apply_batch(GraphTransformationFrom(SourceGraph), batch)
           /\ batch \o oracle.pending = oracle.operations[oracle.current]
    /\ oracle.pc # "rows" =>
           \A id \in DOMAIN oracle.results :
               /\ oracle.results[id].gt.init = SourceGraph
               /\ oracle.results[id].gt =
                      apply_batch(GraphTransformationFrom(SourceGraph),
                                  oracle.operations[id])

\* batch 2, visited first, removed vertex x; batch 1 then found x, bound
\* label id 0 and gave the new label to x
C36_Witness ==
    /\ oracle.pc = "returned"
    /\ oracle.visited = <<2, 1>>
    /\ oracle.operations[2] = <<RemoveVertex(0)>>
    /\ oracle.operations[1] = <<CreateVertexLabel(0, "C"), AddVertexLabel(0, 0)>>
    /\ DOMAIN oracle.results[2].gt.result.graph.nodes = {1}
    /\ DOMAIN oracle.results[1].gt.result.graph.nodes = {0, 1}
    /\ oracle.results[1].gt.operations = <<"CreateVertexLabel(C)", "AddVertexLabel(x,C)">>
    /\ Len(res) = 2

(***************************************************************************)
(* The batches that exist.                                                 *)
(***************************************************************************)
\* the batch ids of the operation rows of the query relation
RowIds ==
    UNION {{t[2] : t \in {u \in Range(oracle.ran.outputs[get_relation_name(KindOrder[k])]) :
                             u[1] = QueryRelation}} :
           k \in 1..Len(KindOrder)}

\* the ids the query relation itself lists
ListedIds == {t[1] : t \in Range(oracle.ran.outputs[QueryRelation])}

\* C37: the batches of a call for a query relation R of the program are the
\* transformation ids of the operation rows whose relation-name column is
\* R, each visited once: an id that R lists and no operation row carries
\* gives no batch and no candidate, an id that operation rows carry and R
\* does not list is materialized, and every candidate returned is the
\* result of one of these batches.
C37_BatchesThatExist ==
    /\ (oracle.pc # "rows" /\ oracle.relation_name = QueryRelation) =>
           /\ DOMAIN oracle.operations = RowIds
           /\ Range(oracle.visited) \cup todo = RowIds
           /\ Range(oracle.visited) \cap todo = {}
           /\ \A i, j \in 1..Len(oracle.visited) :
                  i # j => oracle.visited[i] # oracle.visited[j]
           /\ DOMAIN oracle.results \subseteq Range(oracle.visited)
           /\ \A i \in 1..Len(res) :
                  \E id \in DOMAIN oracle.results :
                      /\ oracle.results[id].kept
                      /\ res[i] = oracle.results[id].gt
           /\ Len(res) = Cardinality({id \in DOMAIN oracle.results :
                                         oracle.results[id].kept})
    /\ oracle.pc = "returned" =>
           /\ DOMAIN oracle.results = RowIds
           /\ \A id \in ListedIds \ RowIds : id \notin DOMAIN oracle.results

\* T lists the ids 1 and 3 and the only operation row is of id 2: the call
\* returns the result of batch 2 and nothing else
C37_Witness ==
    /\ oracle.pc = "returned"
    /\ ListedIds = {1, 3}
    /\ RowIds = {2}
    /\ oracle.operations[2] = <<RemoveVertex(0)>>
    /\ oracle.visited = <<2>>
    /\ Len(res) = 1
    /\ res[1].operations = <<"RemoveVertex(x)">>

(***************************************************************************)
(* The names of created elements.                                          *)
(***************************************************************************)
\* the positions of the operations of kind `kind` on batch-local id `id`
\* among the first n operations of ops
Positions(ops, n, kind, id) ==
    {i \in 1..n : ops[i].kind = kind /\ ops[i].id = id}

\* the name an element created in ops has after the operations of ops: the
\* name of its latest Rename, the empty name without one
ExpectedName(ops, rename, id) ==
    LET renames == Positions(ops, Len(ops), rename, id)
    IN  IF renames = {}
        THEN ""
        ELSE ops[CHOOSE i \in renames : \A j \in renames : j <= i].name

\* the batch-local ids of the elements ops creates
Created(ops, add) == {ops[i].id : i \in {j \in 1..Len(ops) : ops[j].kind = add}}

\* C38: a vertex made by AddVertex and an edge made by AddEdge have the
\* empty name until a Rename of the batch names them, and then the name of
\* the latest Rename; a batch that ends with two created vertices or two
\* created edges without a name, or with a created element whose name
\* another element of its kind has, is not pushed to res.
C38_CreatedUnnamed ==
    /\ (oracle.pc # "rows" /\ gt.status = "running") =>
           /\ \A v \in Created(batch, "AddVertex") :
                  /\ v \in DOMAIN gt.node_map
                  /\ gt.result.graph.nodes[gt.node_map[v]].name =
                         ExpectedName(batch, "RenameVertex", v)
           /\ \A e \in Created(batch, "AddEdge") :
                  /\ e \in DOMAIN gt.edge_map
                  /\ gt.result.graph.edges[gt.edge_map[e]].weight.name =
                         ExpectedName(batch, "RenameEdge", e)
    /\ oracle.pc # "rows" =>
           \A id \in DOMAIN oracle.results :
               LET r   == oracle.results[id]
                   ops == oracle.operations[id]
                   g   == r.gt.result.graph
                   unnamed(add, rename) ==
                       {x \in Created(ops, add) : ExpectedName(ops, rename, x) = ""}
               IN  /\ Cardinality(unnamed("AddVertex", "RenameVertex")) >= 2 => ~r.kept
                   /\ Cardinality(unnamed("AddEdge", "RenameEdge")) >= 2 => ~r.kept
                   /\ (\E v \in Created(ops, "AddVertex") :
                          \E u \in DOMAIN g.nodes \ {r.gt.node_map[v]} :
                              g.nodes[u].name = ExpectedName(ops, "RenameVertex", v))
                          => ~r.kept
                   /\ (\E e \in Created(ops, "AddEdge") :
                          \E f \in DOMAIN g.edges \ {r.gt.edge_map[e]} :
                              g.edges[f].weight.name = ExpectedName(ops, "RenameEdge", e))
                          => ~r.kept
                   /\ ~r.kept => \A i \in 1..Len(res) : res[i] # r.gt

\* batch 1 made the vertices 5 and 6 and named vertex 5 x, the name of a
\* vertex of the source: nothing was pushed
C38_Witness ==
    /\ oracle.pc = "returned"
    /\ oracle.visited = <<1>>
    /\ oracle.operations[1] = <<AddVertex(5), AddVertex(6), RenameVertex(5, "x")>>
    /\ oracle.results[1].gt.status = "running"
    /\ LET g == oracle.results[1].gt
       IN  /\ g.result.graph.nodes[g.node_map[5]].name = "x"
           /\ g.result.graph.nodes[g.node_map[6]].name = ""
           /\ g.result.graph.nodes[0].name = "x"
    /\ ~oracle.results[1].kept
    /\ res = <<>>

====
